---------------------------- MODULE Spec2Model ----------------------------
(***************************************************************************)
(* A model of gcal, the Google Calendar command-line client.               *)
(*                                                                         *)
(* Strings that the program inspects character by character (durations,    *)
(* time limits, reminder specs, command-line arguments) are sequences of   *)
(* one-character strings.  A JavaScript Date is its local calendar day     *)
(* number (days since 1970-01-01) where only the day matters, and a record  *)
(* of local day, minute of the day and second where the time matters.      *)
(***************************************************************************)
EXTENDS Integers, Sequences, FiniteSets, TLC

VARIABLES
    argv,        \* process.argv.slice(2)
    config,      \* the stored configuration: lastUser
    credentials, \* whether the OAuth credentials file exists
    disk,        \* the content of the .ics file
    nativeDate,  \* what the platform's new Date(text) makes of the text given
    pc,          \* where main() is: start, auth, loadIcal, request, exited
    exitCode,    \* the exit status, once exited
    stderr,      \* the last message written with console.error
    errText,     \* the input text that message quotes, if any
    newEvent,    \* add: the event built before the token is asked for
    parsed,      \* the result of parseArgs
    user,        \* the resolved user
    token,       \* the access token held: its scope
    aborted,     \* abortController.signal.aborted
    authCalls,   \* the calls of authenticateOAuth, in order
    calls,       \* the requests sent to the calendar service, in order
    vevents,     \* importIcsFile: the records of the file
    idx,         \* importIcsFile: the record being processed; delete: the argument
    result,      \* importIcsFile: {imported, errors}
    out,         \* what the command printed on success
    call         \* a library function called on its own: input and outcome

mainVars == <<argv, config, credentials, disk, nativeDate, pc, exitCode, stderr, errText, newEvent,
              parsed, user, token, aborted, authCalls, calls, vevents, idx, result, out>>

vars == <<mainVars, call>>

\* No command is running: a library function is called on its own.
MainIdle ==
    /\ argv = <<>>
    /\ config = [lastUser |-> <<>>]
    /\ credentials = FALSE
    /\ disk = [parses |-> FALSE, vevents |-> <<>>]
    /\ nativeDate = [valid |-> FALSE, date |-> [day |-> 0, min |-> 0, sec |-> 0]]
    /\ pc = "idle"
    /\ exitCode = 0
    /\ stderr = ""
    /\ errText = <<>>
    /\ newEvent = <<>>
    /\ parsed = <<>>
    /\ user = <<>>
    /\ token = ""
    /\ aborted = FALSE
    /\ authCalls = <<>>
    /\ calls = <<>>
    /\ vevents = <<>>
    /\ idx = 0
    /\ result = [imported |-> 0, errors |-> <<>>]
    /\ out = <<>>

(***************************************************************************)
(* Bounds of the model.                                                    *)
(***************************************************************************)
MaxDurLen == 4

MaxLimitLen == 3

MaxOptions == 2

MaxRecords == 3

MaxEvents == 2

\* The longest time part of a reminder spec tried.
MaxReminderLen == 3

(***************************************************************************)
(* Characters and JavaScript's string primitives.                          *)
(***************************************************************************)
Digits == {"0", "1", "2", "3", "4", "5", "6", "7", "8", "9"}

WhiteSpace == {" "}

DigitVal(c) ==
    CASE c = "0" -> 0 [] c = "1" -> 1 [] c = "2" -> 2 [] c = "3" -> 3
      [] c = "4" -> 4 [] c = "5" -> 5 [] c = "6" -> 6 [] c = "7" -> 7
      [] c = "8" -> 8 [] c = "9" -> 9

\* The strings over alphabet A of length at most n.
StringsUpTo(A, n) == UNION {[1..k -> A] : k \in 0..n}

\* Decimal value of a sequence of digits (0 for the empty sequence).
RECURSIVE DecimalValue(_)
DecimalValue(ds) ==
    IF ds = <<>> THEN 0
    ELSE 10 * DecimalValue(SubSeq(ds, 1, Len(ds) - 1)) + DigitVal(ds[Len(ds)])

\* The end of the longest run of digits of s that starts at position i
\* (i - 1 when s[i] is not a digit).
RECURSIVE DigitRunEnd(_, _)
DigitRunEnd(s, i) ==
    IF i <= Len(s) /\ s[i] \in Digits THEN DigitRunEnd(s, i + 1) ELSE i - 1

\* The end of the longest run of white space of s that starts at position i.
RECURSIVE SpaceRunEnd(_, _)
SpaceRunEnd(s, i) ==
    IF i <= Len(s) /\ s[i] \in WhiteSpace THEN SpaceRunEnd(s, i + 1) ELSE i - 1

NaN == [nan |-> TRUE, val |-> 0]

Num(n) == [nan |-> FALSE, val |-> n]

\* parseInt(s) in radix 10: leading white space is skipped, one sign is
\* read, then the longest run of digits; anything after it is ignored and
\* no digits at all is NaN.
parseInt(s) ==
    LET b == SpaceRunEnd(s, 1) + 1
        neg == b <= Len(s) /\ s[b] = "-"
        d == IF b <= Len(s) /\ s[b] \in {"-", "+"} THEN b + 1 ELSE b
        e == DigitRunEnd(s, d)
    IN  IF e < d THEN NaN
        ELSE Num(IF neg THEN 0 - DecimalValue(SubSeq(s, d, e))
                        ELSE DecimalValue(SubSeq(s, d, e)))

NoMatch == [ok |-> FALSE, g1 |-> <<>>, g2 |-> <<>>]

\* s.match(/(\d+)u/i) for the unit letters U (both cases of u): the
\* leftmost position where a run of digits is followed by a letter of U.
\* From a given start the run can only be the longest one, since a shorter
\* one is followed by a digit.
RECURSIVE SearchDigitsThen(_, _, _)
SearchDigitsThen(s, U, i) ==
    IF i > Len(s) THEN NoMatch
    ELSE LET e == DigitRunEnd(s, i)
         IN  IF e >= i /\ e + 1 <= Len(s) /\ s[e + 1] \in U
             THEN [ok |-> TRUE, g1 |-> SubSeq(s, i, e), g2 |-> <<s[e + 1]>>]
             ELSE SearchDigitsThen(s, U, i + 1)

(***************************************************************************)
(* glib/gutils.js: parseDuration                                           *)
(***************************************************************************)
DefaultDuration == 60

\* parseInt(duration) || 60: NaN and 0 are both falsy.
parseDurationFallback(duration) ==
    LET n == parseInt(duration)
    IN  IF n.nan \/ n.val = 0 THEN DefaultDuration ELSE n.val

parseDurationHoursDropped(duration) ==
    LET hourMatch == SearchDigitsThen(duration, {"h", "H"}, 1)
        minMatch == SearchDigitsThen(duration, {"m", "M"}, 1)
    IN  IF ~hourMatch.ok /\ ~minMatch.ok THEN parseDurationFallback(duration)
        ELSE IF minMatch.ok THEN parseInt(minMatch.g1).val
        ELSE parseInt(hourMatch.g1).val * 60

parseDuration(duration) ==
    LET hourMatch == SearchDigitsThen(duration, {"h", "H"}, 1)
        minMatch == SearchDigitsThen(duration, {"m", "M"}, 1)
    IN  IF ~hourMatch.ok /\ ~minMatch.ok THEN parseDurationFallback(duration)
        ELSE (IF hourMatch.ok THEN parseInt(hourMatch.g1).val * 60 ELSE 0)
           + (IF minMatch.ok THEN parseInt(minMatch.g1).val ELSE 0)

(***************************************************************************)
(* parseDuration applied to every short string over DurationAlphabet.      *)
(***************************************************************************)
DurationAlphabet == {"0", "1", "3", "h", "H", "m", "M", "-", "x"}

DurationInit ==
    /\ MainIdle
    /\ \E d \in StringsUpTo(DurationAlphabet, MaxDurLen) :
          call = [fn |-> "parseDuration", arg |-> d, state |-> "called", result |-> 0]

CallParseDuration ==
    /\ call.fn = "parseDuration"
    /\ call.state = "called"
    /\ call' = [call EXCEPT !.state = "returned", !.result = parseDuration(call.arg)]
    /\ UNCHANGED mainVars

DurationNext == CallParseDuration

SpecDuration == DurationInit /\ [][DurationNext]_vars


\* ---- parseDuration: the claims ----

Returned(fn) == call.fn = fn /\ call.state = "returned"

IsDigits(s) == s # <<>> /\ \A i \in 1..Len(s) : s[i] \in Digits

\* C5: parseDuration never raises and returns a non-negative number of
\* minutes for every input string, a leading minus sign included.
C5_NonNegative ==
    Returned("parseDuration") => call.result >= 0

\* C6: "<h>h<m>m" gives 60*h + m, "<h>h" gives 60*h and "<m>m" gives m, in
\* either letter case; the two patterns are matched independently, so the
\* order of the two parts does not matter.
C6_HoursMinutesSum ==
    Returned("parseDuration") =>
        LET s == call.arg
            n == Len(s)
        IN  /\ \A k \in 1..n :
                  /\ IsDigits(SubSeq(s, 1, k - 1))
                  /\ k = n
                  => /\ s[k] \in {"h", "H"}
                        => call.result = 60 * DecimalValue(SubSeq(s, 1, k - 1))
                     /\ s[k] \in {"m", "M"}
                        => call.result = DecimalValue(SubSeq(s, 1, k - 1))
            /\ \A k \in 1..n :
                  /\ IsDigits(SubSeq(s, 1, k - 1))
                  /\ IsDigits(SubSeq(s, k + 1, n - 1))
                  => /\ s[k] \in {"h", "H"} /\ s[n] \in {"m", "M"}
                        => call.result = 60 * DecimalValue(SubSeq(s, 1, k - 1))
                                         + DecimalValue(SubSeq(s, k + 1, n - 1))
                     /\ s[k] \in {"m", "M"} /\ s[n] \in {"h", "H"}
                        => call.result = DecimalValue(SubSeq(s, 1, k - 1))
                                         + 60 * DecimalValue(SubSeq(s, k + 1, n - 1))

C6_Witness ==
    /\ Returned("parseDuration")
    /\ call.arg = <<"1", "H", "3", "m">>
    /\ call.result = 63

\* A bare integer: an optional minus sign and then digits, nothing else.
IsBareInteger(s) ==
    \/ IsDigits(s)
    \/ Len(s) >= 2 /\ s[1] = "-" /\ IsDigits(Tail(s))

BareIntegerValue(s) ==
    IF s[1] = "-" THEN 0 - DecimalValue(Tail(s)) ELSE DecimalValue(s)

\* C7: with neither pattern in the input, a bare integer N gives N minutes
\* (0 included) and only a string that is no integer gives the default 60.
C7_BareIntegerIsMinutes ==
    Returned("parseDuration") /\ IsBareInteger(call.arg)
        => call.result = BareIntegerValue(call.arg)


(***************************************************************************)
(* The JavaScript Date (ECMAScript 21.4.1), in whole local days.           *)
(***************************************************************************)
EpochYear == 1970

InLeapYear(y) == (y % 4 = 0 /\ y % 100 # 0) \/ y % 400 = 0

\* DayFromYear(y): the day number of January 1st of year y >= 1970.
DayFromYear(y) ==
    365 * (y - EpochYear) + ((y - 1969) \div 4) - ((y - 1901) \div 100)
        + ((y - 1601) \div 400)

\* The days of a year before its month m (0 = January).
DaysBeforeMonth(m, leap) ==
    LET l == IF leap THEN 1 ELSE 0
    IN  CASE m = 0 -> 0
          [] m = 1 -> 31
          [] m = 2 -> 59 + l
          [] m = 3 -> 90 + l
          [] m = 4 -> 120 + l
          [] m = 5 -> 151 + l
          [] m = 6 -> 181 + l
          [] m = 7 -> 212 + l
          [] m = 8 -> 243 + l
          [] m = 9 -> 273 + l
          [] m = 10 -> 304 + l
          [] m = 11 -> 334 + l

\* YearFromTime: the year whose January 1st is the last one not after day t.
RECURSIVE YearSearch(_, _)
YearSearch(t, y) == IF DayFromYear(y + 1) <= t THEN YearSearch(t, y + 1) ELSE y

getFullYear(t) == YearSearch(t, EpochYear + (t \div 366))

DayWithinYear(t) == t - DayFromYear(getFullYear(t))

\* MonthFromTime: 0 = January.
getMonth(t) ==
    LET leap == InLeapYear(getFullYear(t))
        d == DayWithinYear(t)
    IN  CHOOSE m \in 0..11 :
            /\ DaysBeforeMonth(m, leap) <= d
            /\ m < 11 => d < DaysBeforeMonth(m + 1, leap)

\* DateFromTime: the day of the month, from 1.
getDate(t) ==
    DayWithinYear(t) - DaysBeforeMonth(getMonth(t), InLeapYear(getFullYear(t))) + 1

\* MakeDay(year, month, date): month and date may lie outside their ranges
\* and carry over (month >= 0 here).
MakeDay(year, month, date) ==
    LET ym == year + (month \div 12)
        mn == month % 12
    IN  DayFromYear(ym) + DaysBeforeMonth(mn, InLeapYear(ym)) + date - 1

setDate(t, date) == MakeDay(getFullYear(t), getMonth(t), date)

setMonth(t, month) == MakeDay(getFullYear(t), month, getDate(t))

setFullYear(t, year) == MakeDay(year, getMonth(t), getDate(t))

(***************************************************************************)
(* gcal.js: parseTimeLimit                                                 *)
(***************************************************************************)
ToLowerCase(c) ==
    CASE c = "A" -> "a" [] c = "B" -> "b" [] c = "C" -> "c" [] c = "D" -> "d" [] c = "E" -> "e"
      [] c = "F" -> "f" [] c = "G" -> "g" [] c = "H" -> "h" [] c = "I" -> "i" [] c = "J" -> "j"
      [] c = "K" -> "k" [] c = "L" -> "l" [] c = "M" -> "m" [] c = "N" -> "n" [] c = "O" -> "o"
      [] c = "P" -> "p" [] c = "Q" -> "q" [] c = "R" -> "r" [] c = "S" -> "s" [] c = "T" -> "t"
      [] c = "U" -> "u" [] c = "V" -> "v" [] c = "W" -> "w" [] c = "X" -> "x" [] c = "Y" -> "y"
      [] c = "Z" -> "z"
      [] OTHER -> c

\* s.match(/^(\d+)\s*([U]?)$/i): digits, white space, at most one letter of
\* U (given in both cases), and the end of the string.
MatchNumberUnit(s, U) ==
    LET e == DigitRunEnd(s, 1)
        w == SpaceRunEnd(s, e + 1)
    IN  IF e < 1 THEN NoMatch
        ELSE IF w = Len(s) THEN [ok |-> TRUE, g1 |-> SubSeq(s, 1, e), g2 |-> <<>>]
        ELSE IF w + 1 = Len(s) /\ s[w + 1] \in U
             THEN [ok |-> TRUE, g1 |-> SubSeq(s, 1, e), g2 |-> <<s[w + 1]>>]
        ELSE NoMatch

TimeLimitUnits == {"d", "w", "m", "y", "D", "W", "M", "Y"}

\* (match[2] || 'm').toLowerCase()
UnitOrDefault(g2, default) == IF g2 = <<>> THEN default ELSE ToLowerCase(g2[1])

DaysPerWeek == 7

TimeLimitWeeksAsDays(now, num) == setDate(now, getDate(now) + num)

TimeLimitDays(now, num) == setDate(now, getDate(now) + num)

TimeLimitWeeks(now, num) == setDate(now, getDate(now) + num * DaysPerWeek)

TimeLimitYears(now, num) == setFullYear(now, getFullYear(now) + num)

TimeLimitMonths(now, num) == setMonth(now, getMonth(now) + num)

\* The outcome of parseTimeLimit(spec) called at day now: process.exit(1)
\* for a spec outside the grammar, otherwise the Date returned.
parseTimeLimit(spec, now) ==
    LET match == MatchNumberUnit(spec, TimeLimitUnits)
        num == parseInt(match.g1).val
        unit == UnitOrDefault(match.g2, "m")
    IN  IF ~match.ok THEN [exit |-> TRUE, date |-> 0]
        ELSE [exit |-> FALSE,
              date |-> CASE unit = "d" -> TimeLimitDays(now, num)
                         [] unit = "w" -> TimeLimitWeeks(now, num)
                         [] unit = "y" -> TimeLimitYears(now, num)
                         [] OTHER -> TimeLimitMonths(now, num)]

(***************************************************************************)
(* parseTimeLimit applied to every short string over TimeLimitAlphabet, at *)
(* each of the days of NowDays.                                            *)
(***************************************************************************)
TimeLimitAlphabet == {"0", "1", "2", "9", "d", "w", "W", "m", "y", " ", "x"}

\* <<year, month from 0, day>>: month ends, a leap day, a year end.
NowDays ==
    {<<2024, 0, 31>>, <<2024, 1, 29>>, <<2025, 0, 31>>, <<2025, 7, 31>>,
     <<2025, 11, 31>>, <<2026, 10, 1>>, <<2027, 1, 28>>, <<2026, 4, 15>>}

TimeLimitInit ==
    /\ MainIdle
    /\ \E s \in StringsUpTo(TimeLimitAlphabet, MaxLimitLen), n \in NowDays :
          call = [fn |-> "parseTimeLimit", arg |-> s, today |-> n,
                  now |-> MakeDay(n[1], n[2], n[3]), state |-> "called", result |-> 0]

CallParseTimeLimit ==
    /\ call.fn = "parseTimeLimit"
    /\ call.state = "called"
    /\ LET r == parseTimeLimit(call.arg, call.now)
       IN  call' = [call EXCEPT !.state = IF r.exit THEN "exited" ELSE "returned",
                                !.result = r.date]
    /\ UNCHANGED mainVars

TimeLimitNext == CallParseTimeLimit

SpecTimeLimit == TimeLimitInit /\ [][TimeLimitNext]_vars


\* ---- parseTimeLimit: the claims ----

DaysInMonth(y, m) ==
    IF m = 1 THEN (IF InLeapYear(y) THEN 29 ELSE 28)
    ELSE IF m \in {3, 5, 8, 10} THEN 30 ELSE 31

\* The calendar date <<year, month, day>> moved to month m of year y, m
\* possibly past December: the same day of the month, or, when that month is
\* too short, as many days into the month after it as the day overshoots.
MovedToMonth(y, m, day) ==
    LET ty == y + (m \div 12)
        tm == m % 12
        over == day - DaysInMonth(ty, tm)
    IN  IF over <= 0 THEN <<ty, tm, day>>
        ELSE IF tm = 11 THEN <<ty + 1, 0, over>> ELSE <<ty, tm + 1, over>>

CalendarDate(t) == <<getFullYear(t), getMonth(t), getDate(t)>>

\* What the claim promises for N units of kind unit ("" for no unit).
TimeLimitAsClaimed(unit, N) ==
    LET today == call.today
    IN  CASE unit \in {"d", "D"} -> call.result = call.now + N
          [] unit \in {"w", "W"} -> call.result = call.now + 7 * N
          [] unit \in {"y", "Y"} ->
                CalendarDate(call.result) = MovedToMonth(today[1] + N, today[2], today[3])
          [] OTHER ->
                CalendarDate(call.result) = MovedToMonth(today[1], today[2] + N, today[3])

\* C8: for every input <N><unit>, unit one of d, w, m, y in either case or
\* missing, with white space allowed before the unit, parseTimeLimit returns
\* now + N days for d, now + 7*N days for w, now moved N years on for y and
\* now moved N calendar months on for m or no unit (a day of the month that
\* the target month lacks carries over into the month after it).
C8_TimeLimitUnits ==
    call.fn = "parseTimeLimit" /\ call.state # "called" =>
        LET s == call.arg
            n == Len(s)
        IN  \A k \in 1..n, j \in 1..n :
                /\ k <= j
                /\ IsDigits(SubSeq(s, 1, k))
                /\ \A i \in (k + 1)..j : s[i] = " "
                /\ j = n \/ (j + 1 = n /\ s[n] \in {"d", "D", "w", "W", "m", "M", "y", "Y"})
                => /\ call.state = "returned"
                   /\ TimeLimitAsClaimed(IF j = n THEN "" ELSE s[n],
                                         DecimalValue(SubSeq(s, 1, k)))

C8_Witness ==
    /\ Returned("parseTimeLimit")
    /\ call.arg = <<"2", "w">>
    /\ call.today = <<2025, 11, 31>>
    /\ CalendarDate(call.result) = <<2026, 0, 14>>

\* C9: for every accepted input parseTimeLimit returns an instant later than
\* the now it read, so that list's timeMax is later than its timeMin.
C9_FutureInstant ==
    Returned("parseTimeLimit") => call.result > call.now

(***************************************************************************)
(* More string primitives.                                                 *)
(***************************************************************************)
\* s.split(sep) for a one-character separator: the pieces between the
\* separators, in order (one empty piece for the empty string).
RECURSIVE Split(_, _)
Split(s, sep) ==
    IF \A i \in 1..Len(s) : s[i] # sep THEN <<s>>
    ELSE LET i == CHOOSE j \in 1..Len(s) :
                      s[j] = sep /\ \A k \in 1..(j - 1) : s[k] # sep
         IN  <<SubSeq(s, 1, i - 1)>> \o Split(SubSeq(s, i + 1, Len(s)), sep)

\* s.trim()
RECURSIVE Trim(_)
Trim(s) ==
    IF s = <<>> THEN s
    ELSE IF s[1] \in WhiteSpace THEN Trim(Tail(s))
    ELSE IF s[Len(s)] \in WhiteSpace THEN Trim(SubSeq(s, 1, Len(s) - 1))
    ELSE s

StartsWith(s, prefix) ==
    Len(s) >= Len(prefix) /\ SubSeq(s, 1, Len(prefix)) = prefix

EndsWith(s, suffix) ==
    Len(s) >= Len(suffix) /\ SubSeq(s, Len(s) - Len(suffix) + 1, Len(s)) = suffix

LowerCased(s) == [i \in 1..Len(s) |-> ToLowerCase(s[i])]

RECURSIVE Without(_, _)
Without(s, c) ==
    IF s = <<>> THEN s
    ELSE IF s[1] = c THEN Without(Tail(s), c)
    ELSE <<s[1]>> \o Without(Tail(s), c)

(***************************************************************************)
(* glib/gutils.js: normalizeUser                                           *)
(***************************************************************************)
\* user.toLowerCase().split(/[+@]/)[0].replace(/\./g, '')
normalizeUser(email) ==
    LET lower == LowerCased(email)
        beforePlus == Split(lower, "+")[1]
        local == Split(beforePlus, "@")[1]
    IN  Without(local, ".")

(***************************************************************************)
(* gcal.js: parseReminder                                                  *)
(***************************************************************************)
ReminderUnits == {"m", "h", "d", "M", "H", "D"}

MinutesPerHour == 60

HoursPerDay == 24

\* The outcome of parseReminder(spec): process.exit(1) for a time part
\* outside the grammar, otherwise the reminder {method, minutes}.
parseReminder(spec) ==
    LET pieces == Split(spec, ":")
        timePart == pieces[1]
        method == IF Len(pieces) >= 2 /\ pieces[2] = <<"e", "m", "a", "i", "l">> THEN "email" ELSE "popup"
        match == MatchNumberUnit(timePart, ReminderUnits)
        num == parseInt(match.g1).val
        unit == UnitOrDefault(match.g2, "m")
    IN  IF ~match.ok THEN [exit |-> TRUE, null |-> FALSE, method |-> method, minutes |-> 0]
        ELSE [exit |-> FALSE, null |-> FALSE, method |-> method,
              minutes |-> CASE unit = "h" -> num * MinutesPerHour
                            [] unit = "d" -> num * MinutesPerHour * HoursPerDay
                            [] OTHER -> num]

(***************************************************************************)
(* gcal.js: parseArgs                                                      *)
(***************************************************************************)
DefaultCount == 10

ParsedDefaults ==
    [command |-> <<>>, args |-> <<>>, user |-> <<>>, defaultUser |-> <<>>,
     calendar |-> <<"p", "r", "i", "m", "a", "r", "y">>, count |-> DefaultCount, help |-> FALSE,
     verbose |-> FALSE, icsFile |-> <<>>, birthdays |-> FALSE, reminders |-> <<>>,
     noReminders |-> FALSE, timeLimit |-> <<"3", "m">>, title |-> <<>>, location |-> <<>>,
     startTime |-> <<>>, duration |-> <<>>]

UserFlags == {<<"-", "u">>, <<"-", "u", "s", "e", "r">>, <<"-", "-", "u", "s", "e", "r">>}

DefaultUserFlags == {<<"-", "d", "e", "f", "a", "u", "l", "t", "U", "s", "e", "r">>, <<"-", "-", "d", "e", "f", "a", "u", "l", "t", "U", "s", "e", "r">>}

CalendarFlags == {<<"-", "c">>, <<"-", "c", "a", "l", "e", "n", "d", "a", "r">>, <<"-", "-", "c", "a", "l", "e", "n", "d", "a", "r">>}

CountFlags == {<<"-", "n">>}

VerboseFlags == {<<"-", "v">>, <<"-", "v", "e", "r", "b", "o", "s", "e">>, <<"-", "-", "v", "e", "r", "b", "o", "s", "e">>}

BirthdayFlags == {<<"-", "b">>, <<"-", "b", "i", "r", "t", "h", "d", "a", "y", "s">>, <<"-", "-", "b", "i", "r", "t", "h", "d", "a", "y", "s">>}

LimitFlags == {<<"-", "l", "i", "m", "i", "t">>, <<"-", "-", "l", "i", "m", "i", "t">>}

TitleFlags == {<<"-", "t", "i", "t", "l", "e">>, <<"-", "-", "t", "i", "t", "l", "e">>}

LocationFlags == {<<"-", "l", "o", "c">>, <<"-", "l", "o", "c", "a", "t", "i", "o", "n">>, <<"-", "-", "l", "o", "c", "a", "t", "i", "o", "n">>}

StartFlags == {<<"-", "s", "t", "a", "r", "t">>, <<"-", "-", "s", "t", "a", "r", "t">>}

DurationFlags == {<<"-", "d", "u", "r">>, <<"-", "d", "u", "r", "a", "t", "i", "o", "n">>, <<"-", "-", "d", "u", "r", "a", "t", "i", "o", "n">>}

ReminderFlags == {<<"-", "r">>, <<"-", "r", "e", "m", "i", "n", "d", "e", "r">>, <<"-", "-", "r", "e", "m", "i", "n", "d", "e", "r">>}

HelpFlags == {<<"-", "h">>, <<"-", "h", "e", "l", "p">>, <<"-", "-", "h", "e", "l", "p">>, <<"h", "e", "l", "p">>}

\* argv[++i] || default
ArgOr(args, i, default) ==
    IF i <= Len(args) /\ args[i] # <<>> THEN args[i] ELSE default

\* parseInt(argv[++i]) || 10
CountOr(args, i, default) ==
    LET n == IF i <= Len(args) THEN parseInt(args[i]) ELSE NaN
    IN  IF n.nan \/ n.val = 0 THEN default ELSE n.val

\* The reminders of the comma-separated parts parts[k..], appended to acc;
\* exit as soon as parseReminder ends the process.
RECURSIVE ReminderParts(_, _, _)
ReminderParts(parts, k, acc) ==
    IF k > Len(parts) THEN [exit |-> FALSE, reminders |-> acc]
    ELSE LET reminder == parseReminder(Trim(parts[k]))
         IN  IF reminder.exit THEN [exit |-> TRUE, reminders |-> acc]
             ELSE IF reminder.null THEN ReminderParts(parts, k + 1, acc)
             ELSE ReminderParts(parts, k + 1,
                      Append(acc, [method |-> reminder.method,
                                   minutes |-> reminder.minutes]))

\* process.exit(code) inside parseArgs, after console.error of message and
\* text.
Exited(code, message, text, res) ==
    [exit |-> TRUE, code |-> code, message |-> message, text |-> text,
     parsed |-> res]

\* Only the first part is kept.
JoinFirstOnly(parts, sep) ==
    IF parts = <<>> THEN <<>> ELSE parts[1]

\* parts.join(sep)
RECURSIVE Join(_, _)
Join(parts, sep) ==
    IF parts = <<>> THEN <<>>
    ELSE IF Len(parts) = 1 THEN parts[1]
    ELSE parts[1] \o sep \o Join(Tail(parts), sep)

\* The while loop of parseArgs from argv[i] on, and the check of the
\* unknown options after it.
RECURSIVE parseArgsLoop(_, _, _, _)
parseArgsLoop(args, i, res, unknown) ==
    IF i > Len(args)
    THEN IF unknown # <<>>
         THEN Exited(1, "Unknown options", Join(unknown, <<",", " ">>), res)
         ELSE [exit |-> FALSE, code |-> 0, message |-> "", text |-> <<>>,
               parsed |-> res]
    ELSE LET arg == args[i]
         IN  IF arg \in UserFlags
             THEN parseArgsLoop(args, i + 2,
                      [res EXCEPT !.user = ArgOr(args, i + 1, <<>>)], unknown)
             ELSE IF arg \in DefaultUserFlags
             THEN parseArgsLoop(args, i + 2,
                      [res EXCEPT !.defaultUser = ArgOr(args, i + 1, <<>>)], unknown)
             ELSE IF arg \in CalendarFlags
             THEN parseArgsLoop(args, i + 2,
                      [res EXCEPT !.calendar = ArgOr(args, i + 1, <<"p", "r", "i", "m", "a", "r", "y">>)], unknown)
             ELSE IF arg \in CountFlags
             THEN parseArgsLoop(args, i + 2,
                      [res EXCEPT !.count = CountOr(args, i + 1, DefaultCount)], unknown)
             ELSE IF arg \in VerboseFlags
             THEN parseArgsLoop(args, i + 1, [res EXCEPT !.verbose = TRUE], unknown)
             ELSE IF arg \in BirthdayFlags
             THEN parseArgsLoop(args, i + 1, [res EXCEPT !.birthdays = TRUE], unknown)
             ELSE IF arg \in LimitFlags
             THEN parseArgsLoop(args, i + 2,
                      [res EXCEPT !.timeLimit = ArgOr(args, i + 1, <<"3", "m">>)], unknown)
             ELSE IF arg \in TitleFlags
             THEN parseArgsLoop(args, i + 2,
                      [res EXCEPT !.title = ArgOr(args, i + 1, <<>>)], unknown)
             ELSE IF arg \in LocationFlags
             THEN parseArgsLoop(args, i + 2,
                      [res EXCEPT !.location = ArgOr(args, i + 1, <<>>)], unknown)
             ELSE IF arg \in StartFlags
             THEN parseArgsLoop(args, i + 2,
                      [res EXCEPT !.startTime = ArgOr(args, i + 1, <<>>)], unknown)
             ELSE IF arg \in DurationFlags
             THEN parseArgsLoop(args, i + 2,
                      [res EXCEPT !.duration = ArgOr(args, i + 1, <<>>)], unknown)
             ELSE IF arg \in ReminderFlags
             THEN LET rval == ArgOr(args, i + 1, <<>>)
                  IN  IF rval = <<"0">> \/ rval = <<"n", "o", "n", "e">>
                      THEN parseArgsLoop(args, i + 2,
                               [res EXCEPT !.noReminders = TRUE], unknown)
                      ELSE LET r == ReminderParts(Split(rval, ","), 1, res.reminders)
                           IN  IF r.exit THEN Exited(1, "Invalid reminder", <<>>, res)
                               ELSE parseArgsLoop(args, i + 2,
                                        [res EXCEPT !.reminders = r.reminders],
                                        unknown)
             ELSE IF arg \in HelpFlags
             THEN parseArgsLoop(args, i + 1, [res EXCEPT !.help = TRUE], unknown)
             ELSE IF StartsWith(arg, <<"-">>)
             THEN parseArgsLoop(args, i + 1, res, Append(unknown, arg))
             ELSE IF res.command = <<>>
             THEN IF EndsWith(LowerCased(arg), <<".", "i", "c", "s">>)
                  THEN parseArgsLoop(args, i + 1,
                           [res EXCEPT !.icsFile = arg, !.command = <<"i", "m", "p", "o", "r", "t">>], unknown)
                  ELSE parseArgsLoop(args, i + 1, [res EXCEPT !.command = arg], unknown)
             ELSE parseArgsLoop(args, i + 1,
                      [res EXCEPT !.args = Append(res.args, arg)], unknown)

parseArgs(args) == parseArgsLoop(args, 1, ParsedDefaults, <<>>)

(***************************************************************************)
(* gcal.js: the calendar service requests (apiFetch and its callers).      *)
(***************************************************************************)
\* The options apiFetch hands to fetch: those of its caller and the headers.
\* No caller sets a signal, so none reaches fetch.
apiFetch(accessToken, options) ==
    [op |-> options.op, rec |-> options.rec, body |-> options.body,
     scope |-> accessToken, signal |-> options.signal,
     status |-> "pending", interrupted |-> FALSE, reply |-> <<>>]

listCalendars(accessToken) ==
    apiFetch(accessToken, [op |-> "calendarList", rec |-> 0, body |-> <<>>,
                           signal |-> FALSE])

listEvents(accessToken, maxResults, timeMax) ==
    apiFetch(accessToken, [op |-> "list", rec |-> 0,
                           body |-> [maxResults |-> maxResults, timeMax |-> timeMax],
                           signal |-> FALSE])

createEvent(accessToken, event, rec) ==
    apiFetch(accessToken, [op |-> "create", rec |-> rec, body |-> event,
                           signal |-> FALSE])

deleteEvent(accessToken, eventId) ==
    apiFetch(accessToken, [op |-> "delete", rec |-> 0, body |-> [id |-> eventId],
                           signal |-> FALSE])

Pending == {i \in 1..Len(calls) : calls[i].status = "pending"}

(***************************************************************************)
(* gcal.js: importIcsFile                                                  *)
(***************************************************************************)
NoDay == -1

LocalZone == "Local/Zone"

\* The zone of the value is dropped: every timed value gets the system's.
EventDateTimeZoneDropped(d) ==
    IF ~d.present THEN [date |-> NoDay, dateTime |-> NoDay, timeZone |-> ""]
    ELSE IF d.isDate THEN [date |-> d.day, dateTime |-> NoDay, timeZone |-> ""]
    ELSE [date |-> NoDay, dateTime |-> d.day, timeZone |-> LocalZone]

\* googleEvent.start / googleEvent.end for event.startDate / event.endDate:
\* left {} for a missing value, a date for a date-only value, otherwise a
\* dateTime and the value's zone or the system's.
EventDateTime(d) ==
    IF ~d.present THEN [date |-> NoDay, dateTime |-> NoDay, timeZone |-> ""]
    ELSE IF d.isDate THEN [date |-> d.day, dateTime |-> NoDay, timeZone |-> ""]
    ELSE [date |-> NoDay, dateTime |-> d.day,
          timeZone |-> IF d.tzid # "" THEN d.tzid ELSE LocalZone]

\* The googleEvent built from one VEVENT.
mapRecord(vevent) ==
    [summary |-> IF vevent.summary # "" THEN vevent.summary ELSE "Untitled Event",
     start |-> EventDateTime(vevent.startDate),
     end |-> EventDateTime(vevent.endDate)]

\* The failing record's summary is lost.
ImportFailedSummaryLost(res, vevent, message) ==
    [imported |-> res.imported,
     errors |-> Append(res.errors, [summary |-> "unknown", message |-> message])]

\* The catch of the loop body: `${summary}: ${e.message}` is pushed.
ImportFailed(res, vevent, message) ==
    [imported |-> res.imported,
     errors |-> Append(res.errors,
                   [summary |-> IF vevent.summary # "" THEN vevent.summary ELSE "unknown",
                    message |-> message])]

\* The created event is not counted.
ImportCreatedUncounted(res) == res

\* After createEvent has returned: result.imported++
ImportCreated(res) == [res EXCEPT !.imported = res.imported + 1]

\* The for loop from record i on, up to its next createEvent call (request
\* TRUE: the record at idx is mapped and its event is to be sent) or its end.
RECURSIVE importLoop(_, _, _)
importLoop(events, i, res) ==
    IF i > Len(events)
    THEN [idx |-> Len(events) + 1, result |-> res, request |-> FALSE]
    ELSE IF events[i].malformed
    THEN importLoop(events, i + 1, ImportFailed(res, events[i], "mapping failed"))
    ELSE [idx |-> i, result |-> res, request |-> TRUE]

(***************************************************************************)
(* JavaScript's Date with its time of day: the local calendar day number,  *)
(* the minute of that day, and the seconds (with the milliseconds) within  *)
(* that minute.                                                            *)
(***************************************************************************)
MinutesPerDay == HoursPerDay * MinutesPerHour

DateAt(day, min, sec) == [day |-> day, min |-> min, sec |-> sec]

\* d.getDay(): 0 = Sunday; 1970-01-01 was a Thursday.
getDay(d) == (d.day + 4) % 7

\* d.setDate(d.getDate() + n)
AddDays(d, n) == [d EXCEPT !.day = setDate(d.day, getDate(d.day) + n)]

\* d.setHours(h, m, 0, 0): hours and minutes beyond their ranges carry over
\* into the following days.
setHours(d, h, m) ==
    LET total == h * MinutesPerHour + m
    IN  DateAt(d.day + (total \div MinutesPerDay), total % MinutesPerDay, 0)

\* new Date(d.getTime() + minutes * 60 * 1000)
AddMinutes(d, minutes) ==
    LET total == d.min + minutes
    IN  DateAt(d.day + (total \div MinutesPerDay), total % MinutesPerDay, d.sec)

\* new Date(year, monthIndex, day, hours, minutes): a year of 0..99 is
\* taken as 1900 + year.
NewDate(year, monthIndex, day, hours, minutes) ==
    LET y == IF year >= 0 /\ year <= 99 THEN 1900 + year ELSE year
    IN  setHours(DateAt(MakeDay(y, monthIndex, day), 0, 0), hours, minutes)

(***************************************************************************)
(* glib/gutils.js: the regular expressions of parseDateTime.  Each is      *)
(* anchored at both ends and is matched from left to right; no element can *)
(* take a character that the element before it could give back, so the     *)
(* greedy match is the only one.                                           *)
(***************************************************************************)
Letters ==
    {"a", "b", "c", "d", "e", "f", "g", "h", "i", "j", "k", "l", "m", "n", "o", "p",
     "q", "r", "s", "t", "u", "v", "w", "x", "y", "z"}

HasAt(s, i, word) == i + Len(word) - 1 <= Len(s) /\ SubSeq(s, i, i + Len(word) - 1) = word

\* The end of the run of at most max digits that starts at position i.
DigitsEnd(s, i, max) ==
    LET e == DigitRunEnd(s, i) IN IF e > i + max - 1 THEN i + max - 1 ELSE e

\* \s+ at position i: the position after the white space, 0 without any.
AfterSpaces(s, i) ==
    LET w == SpaceRunEnd(s, i) IN IF w < i THEN 0 ELSE w + 1

\* (?:at\s+)? at position i: the position after it.
AfterAt(s, i) ==
    IF HasAt(s, i, <<"a", "t">>) /\ AfterSpaces(s, i + 2) # 0 THEN AfterSpaces(s, i + 2) ELSE i

RECURSIVE LetterRunEnd(_, _)
LetterRunEnd(s, i) ==
    IF i <= Len(s) /\ s[i] \in Letters THEN LetterRunEnd(s, i + 1) ELSE i - 1

NoTime == [ok |-> FALSE, hour |-> <<>>, min |-> <<>>, ampm |-> <<>>]

\* (\d{1,2})(?::(\d{2}))?\s*(am|pm)?$ from position i of s.
MatchTime(s, i) ==
    LET e == DigitsEnd(s, i, 2)
        colon == e + 1 <= Len(s) /\ s[e + 1] = ":"
        m == IF colon THEN DigitsEnd(s, e + 2, 2) ELSE e
        w == SpaceRunEnd(s, m + 1)
        rest == SubSeq(s, w + 1, Len(s))
    IN  IF i < 1 \/ e < i THEN NoTime
        ELSE IF colon /\ m # e + 3 THEN NoTime
        ELSE IF rest \notin {<<>>, <<"a", "m">>, <<"p", "m">>} THEN NoTime
        ELSE [ok |-> TRUE, hour |-> SubSeq(s, i, e),
              min |-> IF colon THEN SubSeq(s, e + 2, m) ELSE <<>>, ampm |-> rest]

\* (\d{1,2}):(\d{2})$ from position i of s.
MatchHourMinute(s, i) ==
    LET t == MatchTime(s, i)
    IN  IF t.ok /\ t.min # <<>> /\ t.ampm = <<>> /\ s[Len(s)] \in Digits THEN t ELSE NoTime

RelativeWords == {<<"t", "o", "d", "a", "y">>, <<"t", "o", "m", "o", "r", "r", "o", "w">>}

\* The meridiem is required: (am|pm) instead of (am|pm)?.
relMatchMeridiemRequired(lower) ==
    IF \E r \in RelativeWords : HasAt(lower, 1, r) /\ AfterSpaces(lower, Len(r) + 1) # 0
    THEN LET rel == CHOOSE r \in RelativeWords :
                        HasAt(lower, 1, r) /\ AfterSpaces(lower, Len(r) + 1) # 0
             t == MatchTime(lower, AfterAt(lower, AfterSpaces(lower, Len(rel) + 1)))
         IN  [ok |-> t.ok /\ t.ampm # <<>>, rel |-> rel, time |-> t]
    ELSE [ok |-> FALSE, rel |-> <<>>, time |-> NoTime]

\* /^(today|tomorrow)\s+(?:at\s+)?(\d{1,2})(?::(\d{2}))?\s*(am|pm)?$/i
relMatch(lower) ==
    IF \E r \in RelativeWords : HasAt(lower, 1, r) /\ AfterSpaces(lower, Len(r) + 1) # 0
    THEN LET rel == CHOOSE r \in RelativeWords :
                        HasAt(lower, 1, r) /\ AfterSpaces(lower, Len(r) + 1) # 0
             t == MatchTime(lower, AfterAt(lower, AfterSpaces(lower, Len(rel) + 1)))
         IN  [ok |-> t.ok, rel |-> rel, time |-> t]
    ELSE [ok |-> FALSE, rel |-> <<>>, time |-> NoTime]

weekdays ==
    <<<<"s", "u", "n", "d", "a", "y">>, <<"m", "o", "n", "d", "a", "y">>, <<"t", "u", "e", "s", "d", "a", "y">>, <<"w", "e", "d", "n", "e", "s", "d", "a", "y">>, <<"t", "h", "u", "r", "s", "d", "a", "y">>, <<"f", "r", "i", "d", "a", "y">>, <<"s", "a", "t", "u", "r", "d", "a", "y">>>>

\* array.indexOf(x), from 0; -1 when x is not an element.
IndexOf(array, x) ==
    IF \E k \in 1..Len(array) : array[k] = x
    THEN (CHOOSE k \in 1..Len(array) : array[k] = x /\ \A j \in 1..(k - 1) : array[j] # x) - 1
    ELSE -1

\* /^(next\s+)?(sunday|...|saturday)\s+(?:at\s+)?(\d{1,2})(?::(\d{2}))?\s*(am|pm)?$/i
dayMatch(lower) ==
    LET next == HasAt(lower, 1, <<"n", "e", "x", "t">>) /\ AfterSpaces(lower, 5) # 0
        b == IF next THEN AfterSpaces(lower, 5) ELSE 1
        Named(d) == HasAt(lower, b, d) /\ AfterSpaces(lower, b + Len(d)) # 0
    IN  IF \E k \in 1..Len(weekdays) : Named(weekdays[k])
        THEN LET day == weekdays[CHOOSE k \in 1..Len(weekdays) : Named(weekdays[k])]
                 t == MatchTime(lower, AfterAt(lower, AfterSpaces(lower, b + Len(day))))
             IN  [ok |-> t.ok, next |-> next, day |-> day, time |-> t]
        ELSE [ok |-> FALSE, next |-> FALSE, day |-> <<>>, time |-> NoTime]

months ==
    <<<<"j", "a", "n">>, <<"f", "e", "b">>, <<"m", "a", "r">>, <<"a", "p", "r">>, <<"m", "a", "y">>, <<"j", "u", "n">>, <<"j", "u", "l">>, <<"a", "u", "g">>, <<"s", "e", "p">>, <<"o", "c", "t">>, <<"n", "o", "v">>, <<"d", "e", "c">>>>

NoMonth ==
    [ok |-> FALSE, month |-> <<>>, day |-> <<>>, year |-> <<>>, time |-> NoTime]

\* /^(jan|...|dec)[a-z]*\s+(\d{1,2})(?:\s+(\d{4}))?
\*   (?:\s+(?:at\s+)?(\d{1,2})(?::(\d{2}))?\s*(am|pm)?)?$/i
monthMatch(lower) ==
    IF Len(lower) < 3 \/ IndexOf(months, SubSeq(lower, 1, 3)) < 0 THEN NoMonth
    ELSE LET d == AfterSpaces(lower, LetterRunEnd(lower, 4) + 1)
             de == DigitsEnd(lower, d, 2)
             y == AfterSpaces(lower, de + 1)
             ye == DigitRunEnd(lower, y)
             hasYear == /\ y # 0
                        /\ ye = y + 3
                        /\ ye = Len(lower) \/ lower[ye + 1] \in WhiteSpace
             after == IF hasYear THEN ye ELSE de
             t == MatchTime(lower, AfterAt(lower, AfterSpaces(lower, after + 1)))
         IN  IF d = 0 \/ de < d THEN NoMonth
             ELSE IF after = Len(lower)
             THEN [ok |-> TRUE, month |-> SubSeq(lower, 1, 3), day |-> SubSeq(lower, d, de),
                   year |-> IF hasYear THEN SubSeq(lower, y, ye) ELSE <<>>, time |-> NoTime]
             ELSE IF AfterSpaces(lower, after + 1) # 0 /\ t.ok
             THEN [ok |-> TRUE, month |-> SubSeq(lower, 1, 3), day |-> SubSeq(lower, d, de),
                   year |-> IF hasYear THEN SubSeq(lower, y, ye) ELSE <<>>, time |-> t]
             ELSE NoMonth

NoDateTime == [ok |-> FALSE, a |-> <<>>, b |-> <<>>, c |-> <<>>, time |-> NoTime]

\* ^(\d{n1,2})sep(\d{1,2})sep(\d{n3,n3max})\s+(\d{1,2}):(\d{2})$ where the
\* first field has firstMin..firstMax digits and the third thirdMin..thirdMax.
MatchThreeFields(input, sep, firstMin, firstMax, thirdMin, thirdMax) ==
    LET ae == DigitsEnd(input, 1, firstMax)
        be == DigitsEnd(input, ae + 2, 2)
        ce == DigitsEnd(input, be + 2, thirdMax)
        t == MatchHourMinute(input, AfterSpaces(input, ce + 1))
    IN  IF /\ ae >= firstMin
           /\ ae + 1 <= Len(input) /\ input[ae + 1] = sep
           /\ be >= ae + 2
           /\ be + 1 <= Len(input) /\ input[be + 1] = sep
           /\ ce >= be + 1 + thirdMin
           /\ AfterSpaces(input, ce + 1) # 0
           /\ t.ok
        THEN [ok |-> TRUE, a |-> SubSeq(input, 1, ae), b |-> SubSeq(input, ae + 2, be),
              c |-> SubSeq(input, be + 2, ce), time |-> t]
        ELSE NoDateTime

\* /^(\d{1,2})\/(\d{1,2})\/(\d{4})\s+(\d{1,2}):(\d{2})$/
dateTimeMatch(input) == MatchThreeFields(input, "/", 1, 2, 4, 4)

\* /^(\d{4})-(\d{1,2})-(\d{1,2})\s+(\d{1,2}):(\d{2})$/
isoDateTimeMatch(input) == MatchThreeFields(input, "-", 4, 4, 1, 2)

\* /^(\d{1,2}):(\d{2})$/
timeMatch(input) == MatchHourMinute(input, 1)

\* /^(\d{1,2})(?::(\d{2}))?\s*(am|pm)$/
ampmMatch(lower) ==
    LET t == MatchTime(lower, 1) IN IF t.ok /\ t.ampm # <<>> THEN t ELSE NoTime

(***************************************************************************)
(* glib/gutils.js: parseDateTime                                           *)
(***************************************************************************)
NotSet == -1

\* The value parseDateTime returns by rule, with the hours and minutes it
\* passed to setHours (NotSet when it did not call it).
Resolved(rule, date, hours, minutes) ==
    [thrown |-> FALSE, rule |-> rule, date |-> date, hours |-> hours, minutes |-> minutes]

\* The 12-hour adjustment is wrong for noon: pm always adds 12.
relHourNoonShifted(hour, ampm) ==
    LET h == parseInt(hour).val
    IN  IF ampm = <<"p", "m">> THEN h + 12
        ELSE IF ampm = <<"a", "m">> /\ h = 12 THEN 0
        ELSE h

\* let h = parseInt(hour); if pm and h < 12, h += 12; if am and h === 12,
\* h = 0 (today/tomorrow rule).
relHour(hour, ampm) ==
    LET h == parseInt(hour).val
    IN  IF ampm = <<"p", "m">> /\ h < 12 THEN h + 12
        ELSE IF ampm = <<"a", "m">> /\ h = 12 THEN 0
        ELSE h

\* The same adjustment in the weekday rule.
dayHour(hour, ampm) ==
    LET h == parseInt(hour).val
    IN  IF ampm = <<"p", "m">> /\ h < 12 THEN h + 12
        ELSE IF ampm = <<"a", "m">> /\ h = 12 THEN 0
        ELSE h

\* The same adjustment in the month-name rule.
monthHour(hour, ampm) ==
    LET h == parseInt(hour).val
    IN  IF ampm = <<"p", "m">> /\ h < 12 THEN h + 12
        ELSE IF ampm = <<"a", "m">> /\ h = 12 THEN 0
        ELSE h

\* The same adjustment in the bare am/pm rule.
ampmHour(hour, ampm) ==
    LET h == parseInt(hour).val
    IN  IF ampm = <<"p", "m">> /\ h < 12 THEN h + 12
        ELSE IF ampm = <<"a", "m">> /\ h = 12 THEN 0
        ELSE h

\* parseInt(min || '0')
MinuteOr0(min) == IF min = <<>> THEN 0 ELSE parseInt(min).val

\* Lines 199-211: today or tomorrow at a time.
relativeRule(m, now) ==
    LET d == IF m.rel = <<"t", "o", "m", "o", "r", "r", "o", "w">> THEN AddDays(now, 1) ELSE now
        h == relHour(m.time.hour, m.time.ampm)
    IN  Resolved(3, setHours(d, h, MinuteOr0(m.time.min)), h, MinuteOr0(m.time.min))

\* Lines 215-230: the next occurrence of a weekday at a time.
weekdayRule(m, now) ==
    LET targetDay == IndexOf(weekdays, m.day)
        diff == targetDay - getDay(now)
        daysUntil == IF diff <= 0 \/ m.next THEN diff + 7 ELSE diff
        h == dayHour(m.time.hour, m.time.ampm)
    IN  Resolved(4, setHours(AddDays(now, daysUntil), h, MinuteOr0(m.time.min)),
                 h, MinuteOr0(m.time.min))

\* Lines 234-252: a month name, a day, and perhaps a year and a time.  The
\* Date built from a year of four digits, a month and a day of two digits
\* is always a valid one.
monthRule(m, now) ==
    LET monthIndex == IndexOf(months, m.month)
        year == IF m.year # <<>> THEN parseInt(m.year).val ELSE getFullYear(now.day)
        d == NewDate(year, monthIndex, parseInt(m.day).val, 0, 0)
        h == monthHour(m.time.hour, m.time.ampm)
    IN  IF m.time.ok
        THEN Resolved(5, setHours(d, h, MinuteOr0(m.time.min)), h, MinuteOr0(m.time.min))
        ELSE Resolved(5, setHours(d, 0, 0), 0, 0)

\* Lines 255-261: M/D/YYYY H:MM.
slashRule(m) ==
    Resolved(6, NewDate(parseInt(m.c).val, parseInt(m.a).val - 1, parseInt(m.b).val,
                        parseInt(m.time.hour).val, parseInt(m.time.min).val),
             NotSet, NotSet)

\* Lines 263-269: YYYY-M-D H:MM.
isoRule(m) ==
    Resolved(7, NewDate(parseInt(m.a).val, parseInt(m.b).val - 1, parseInt(m.c).val,
                        parseInt(m.time.hour).val, parseInt(m.time.min).val),
             NotSet, NotSet)

\* Lines 272-277: H:MM, today.
timeRule(m, now) ==
    Resolved(8, setHours(now, parseInt(m.hour).val, parseInt(m.min).val),
             parseInt(m.hour).val, parseInt(m.min).val)

\* Lines 280-290: H[:MM] am|pm, today.
ampmRule(m, now) ==
    LET h == ampmHour(m.hour, m.ampm)
    IN  Resolved(9, setHours(now, h, MinuteOr0(m.min)), h, MinuteOr0(m.min))

\* What new Date(input) makes of an input no rule resolves: no date, or
\* some date.
NativeAnswers ==
    {[valid |-> FALSE, date |-> DateAt(0, 0, 0)],
     [valid |-> TRUE, date |-> DateAt(MakeDay(2026, 0, 15), 0, 0)]}

\* Lines 292-296: new Date(input), whose answer native is the platform's,
\* and the error thrown when that is no date either.
nativeRule(native) ==
    IF native.valid THEN Resolved(10, native.date, NotSet, NotSet)
    ELSE [thrown |-> TRUE, rule |-> 10, date |-> native.date, hours |-> NotSet,
          minutes |-> NotSet]

\* parseDateTime(input) called at now.
parseDateTime(input, now, native) ==
    LET lower == Trim(LowerCased(input))
    IN  IF lower = <<"t", "o", "d", "a", "y">> THEN Resolved(1, now, NotSet, NotSet)
        ELSE IF lower = <<"t", "o", "m", "o", "r", "r", "o", "w">> THEN Resolved(2, AddDays(now, 1), NotSet, NotSet)
        ELSE IF relMatch(lower).ok THEN relativeRule(relMatch(lower), now)
        ELSE IF dayMatch(lower).ok THEN weekdayRule(dayMatch(lower), now)
        ELSE IF monthMatch(lower).ok THEN monthRule(monthMatch(lower), now)
        ELSE IF dateTimeMatch(input).ok THEN slashRule(dateTimeMatch(input))
        ELSE IF isoDateTimeMatch(input).ok THEN isoRule(isoDateTimeMatch(input))
        ELSE IF timeMatch(input).ok THEN timeRule(timeMatch(input), now)
        ELSE IF ampmMatch(lower).ok THEN ampmRule(ampmMatch(lower), now)
        ELSE nativeRule(native)

(***************************************************************************)
(* gcal.js: main, up to its first await.                                   *)
(***************************************************************************)
ScopeRead == "calendar.readonly"

ScopeWrite == "calendar"

IcsPath == <<"a", ".", "i", "c", "s">>

\* fs.existsSync(path.resolve(filePath)): one .ics file exists.
FileExists(filePath) == filePath = IcsPath

\* new Date() in main: the day the command runs.
Today == MakeDay(2026, 10, 1)

\* The stored user is preferred to the one given with -u.
resolveUserStoredFirst(cliUser, cfg) ==
    IF cfg.lastUser # <<>> THEN cfg.lastUser ELSE normalizeUser(cliUser)

\* resolveUser(cliUser, false)
resolveUser(cliUser, cfg) ==
    IF cliUser # <<>> THEN normalizeUser(cliUser) ELSE cfg.lastUser

\* process.exit(code) after console.error(message).
ExitProcess(code, message, cfg, u) ==
    [pc |-> "exited", exitCode |-> code, stderr |-> message, errText |-> <<>>,
     event |-> <<>>, config |-> cfg,
     user |-> u, authCalls |-> <<>>]

\* The read-only token is asked for whatever the command.
getAccessTokenReadOnly(u, writeAccess, creds, cfg) ==
    IF ~creds THEN ExitProcess(1, "Credentials file not found", cfg, u)
    ELSE [pc |-> "auth", exitCode |-> 0, stderr |-> "", errText |-> <<>>,
          event |-> <<>>, config |-> cfg, user |-> u,
          authCalls |-> <<[user |-> u, scope |-> ScopeRead,
                           tokenFileName |-> "token.json", signal |-> TRUE]>>]

\* getAccessToken(user, writeAccess) up to its await of authenticateOAuth,
\* which is given the abort signal.
getAccessToken(u, writeAccess, creds, cfg) ==
    IF ~creds THEN ExitProcess(1, "Credentials file not found", cfg, u)
    ELSE [pc |-> "auth", exitCode |-> 0, stderr |-> "", errText |-> <<>>,
          event |-> <<>>, config |-> cfg, user |-> u,
          authCalls |-> <<[user |-> u,
                           scope |-> IF writeAccess THEN ScopeWrite ELSE ScopeRead,
                           tokenFileName |-> IF writeAccess THEN "token-write.json"
                                             ELSE "token.json",
                           signal |-> TRUE]>>]

\* The list command asks for a token without reading the time limit.
listCommandAuthFirst(p, u, creds, cfg) == getAccessToken(u, FALSE, creds, cfg)

\* case 'list', up to getAccessToken.
listCommand(p, u, creds, cfg) ==
    IF parseTimeLimit(p.timeLimit, Today).exit
    THEN ExitProcess(1, "Invalid time limit", cfg, u)
    ELSE getAccessToken(u, FALSE, creds, cfg)

\* case 'import', up to getAccessToken.
importCommand(p, u, creds, cfg) ==
    LET filePath == IF p.icsFile # <<>> THEN p.icsFile
                    ELSE IF p.args # <<>> THEN p.args[1] ELSE <<>>
    IN  IF filePath = <<>> THEN ExitProcess(1, "Usage: gcal import", cfg, u)
        ELSE IF ~FileExists(filePath) THEN ExitProcess(1, "File not found", cfg, u)
        ELSE getAccessToken(u, TRUE, creds, cfg)

\* new Date() in main, with its time of day.
Now == DateAt(Today, 615, 42)

\* The minutes local time is ahead of UTC (behind, when negative).
UtcOffset == -300

SecondsPerMinute == 60

\* d.toISOString(): the instant in UTC, in seconds since the epoch.
toISOString(d) ==
    (d.day * MinutesPerDay + d.min - UtcOffset) * SecondsPerMinute + d.sec

\* new Date(dateTime): the instant read back as a local date.
FromISOString(t) ==
    LET local == (t \div SecondsPerMinute) + UtcOffset
    IN  DateAt(local \div MinutesPerDay, local % MinutesPerDay, t % SecondsPerMinute)

\* { dateTime: d.toISOString(), timeZone: <the system's> }
TimedValue(d) == [date |-> NoDay, dateTime |-> toISOString(d), timeZone |-> LocalZone]

\* A start or end that is not set.
NoValue == [date |-> NoDay, dateTime |-> NoDay, timeZone |-> ""]

\* The reminders are set only when no -r value was 0 or none.
eventRemindersIgnoringNone(p) ==
    IF p.reminders # <<>>
    THEN [set |-> TRUE, useDefault |-> FALSE, overrides |-> p.reminders]
    ELSE IF p.noReminders
    THEN [set |-> TRUE, useDefault |-> FALSE, overrides |-> <<>>]
    ELSE [set |-> FALSE, useDefault |-> TRUE, overrides |-> <<>>]

\* event.reminders / body.reminders of add and update: left out (set FALSE)
\* when no -r was given.
eventReminders(p) ==
    IF p.noReminders
    THEN [set |-> TRUE, useDefault |-> FALSE, overrides |-> <<>>]
    ELSE IF p.reminders # <<>>
    THEN [set |-> TRUE, useDefault |-> FALSE, overrides |-> p.reminders]
    ELSE [set |-> FALSE, useDefault |-> TRUE, overrides |-> <<>>]

\* The end of the added event is its start.
addEventNoDuration(p, startTime) ==
    [id |-> <<>>, summary |-> p.args[1], location |-> <<>>,
     start |-> TimedValue(startTime), end |-> TimedValue(startTime),
     reminders |-> eventReminders(p)]

\* case 'add': the event built from [title, when, duration = '1h'] once
\* parseDateTime has returned startTime.
addEvent(p, startTime) ==
    LET duration == IF Len(p.args) >= 3 THEN p.args[3] ELSE <<"1", "h">>
        durationMins == parseDuration(duration)
        endTime == AddMinutes(startTime, durationMins)
    IN  [id |-> <<>>, summary |-> p.args[1], location |-> <<>>,
         start |-> TimedValue(startTime), end |-> TimedValue(endTime),
         reminders |-> eventReminders(p)]

\* An error thrown out of main: its catch prints the message and sets the
\* exit code.
Thrown(message, text, cfg, u) ==
    [ExitProcess(1, message, cfg, u) EXCEPT !.errText = text]

\* The token is asked for before <when> is parsed.
addCommandAuthFirst(p, u, creds, cfg, native) ==
    IF Len(p.args) < 2 THEN ExitProcess(1, "Usage: gcal add", cfg, u)
    ELSE [getAccessToken(u, TRUE, creds, cfg) EXCEPT
              !.event = addEvent(p, parseDateTime(p.args[2], Now, native).date)]

\* case 'add', up to getAccessToken.
addCommand(p, u, creds, cfg, native) ==
    IF Len(p.args) < 2 THEN ExitProcess(1, "Usage: gcal add", cfg, u)
    ELSE LET startTime == parseDateTime(p.args[2], Now, native)
         IN  IF startTime.thrown
             THEN Thrown("Error: Cannot parse date/time", p.args[2], cfg, u)
             ELSE [getAccessToken(u, TRUE, creds, cfg) EXCEPT
                       !.event = addEvent(p, startTime.date)]

\* case 'update', up to getAccessToken.
updateCommand(p, u, creds, cfg) ==
    IF p.args = <<>> THEN ExitProcess(1, "Usage: gcal update", cfg, u)
    ELSE getAccessToken(u, TRUE, creds, cfg)

DeleteNames == {<<"d", "e", "l">>, <<"d", "e", "l", "e", "t", "e">>}

\* case 'del' / case 'delete', up to getAccessToken.
deleteCommand(p, u, creds, cfg) ==
    IF p.args = <<>> THEN ExitProcess(1, "Usage: gcal delete", cfg, u)
    ELSE getAccessToken(u, TRUE, creds, cfg)

\* main() after parseArgs has returned p, with the stored configuration cfg:
\* -defaultUser, help, the missing command, assoc (which ends with
\* assocCode), the user, and the command up to its first await.
mainAfterParse(p, cfg, creds, assocCode, native) ==
    LET cfg1 == IF p.defaultUser # <<>>
                THEN [cfg EXCEPT !.lastUser = normalizeUser(p.defaultUser)]
                ELSE cfg
        u == resolveUser(p.user, cfg1)
    IN  IF p.defaultUser # <<>> /\ p.command = <<>> /\ p.icsFile = <<>>
        THEN ExitProcess(0, "", cfg1, <<>>)
        ELSE IF p.help THEN ExitProcess(0, "", cfg1, <<>>)
        ELSE IF p.command = <<>> THEN ExitProcess(1, "", cfg1, <<>>)
        ELSE IF p.command = <<"a", "s", "s", "o", "c">> THEN ExitProcess(assocCode, "", cfg1, <<>>)
        ELSE IF u = <<>> THEN ExitProcess(1, "No user configured", cfg1, u)
        ELSE IF p.command = <<"i", "m", "p", "o", "r", "t">> THEN importCommand(p, u, creds, cfg1)
        ELSE IF p.command = <<"l", "i", "s", "t">> THEN listCommand(p, u, creds, cfg1)
        ELSE IF p.command = <<"c", "a", "l", "e", "n", "d", "a", "r", "s">> THEN getAccessToken(u, FALSE, creds, cfg1)
        ELSE IF p.command = <<"a", "d", "d">> THEN addCommand(p, u, creds, cfg1, native)
        ELSE IF p.command = <<"u", "p", "d", "a", "t", "e">> THEN updateCommand(p, u, creds, cfg1)
        ELSE IF p.command \in DeleteNames THEN deleteCommand(p, u, creds, cfg1)
        ELSE ExitProcess(1, "Unknown command", cfg1, u)

\* main(): setupAbortHandler, parseArgs and the rest up to the first await.
Start ==
    /\ pc = "start"
    /\ \E assocCode \in {0, 1}, p \in {parseArgs(argv)} :
        \E o \in {IF p.exit THEN ExitProcess(p.code, p.message, config, <<>>)
                  ELSE mainAfterParse(p.parsed, config, credentials, assocCode,
                                      nativeDate)} :
            /\ parsed' = IF p.exit THEN <<>> ELSE p.parsed
            /\ pc' = o.pc
            /\ exitCode' = o.exitCode
            /\ stderr' = o.stderr
            /\ errText' = IF p.exit THEN p.text ELSE o.errText
            /\ newEvent' = o.event
            /\ config' = o.config
            /\ user' = o.user
            /\ authCalls' = o.authCalls
    /\ UNCHANGED <<argv, nativeDate, credentials, disk, token, aborted, calls, vevents, idx,
                   result, out, call>>

(***************************************************************************)
(* gcal.js: main after getAccessToken.                                     *)
(***************************************************************************)
\* listEvents(token, parsed.calendar, 50) of update.
UpdateListSize == 50

updateEvent(accessToken, eventId, body) ==
    apiFetch(accessToken, [op |-> "update", rec |-> 0,
                           body |-> [body EXCEPT !.id = eventId], signal |-> FALSE])

\* glib/gutils.js formatDateTime(dt): the date as it is, or the local
\* yyyy-mm-dd hh:mm of the instant (min is NotSet for a date).
formatDateTime(dt) ==
    IF dt.date # NoDay THEN [day |-> dt.date, min |-> NotSet]
    ELSE LET d == FromISOString(dt.dateTime)
         IN  [day |-> d.day, min |-> d.min]

UpdateFailed(message, text) ==
    [ok |-> FALSE, message |-> message, errText |-> text, body |-> <<>>]

\* The duration of the target is not looked at: one hour without -dur.
updateBodyTargetIgnored(p, target, native) ==
    LET newStart == parseDateTime(p.startTime, Now, native)
        durationSecs ==
            IF p.duration # <<>> THEN parseDuration(p.duration) * SecondsPerMinute
            ELSE MinutesPerHour * SecondsPerMinute
        startSet == p.startTime # <<>>
        endOnly == p.startTime = <<>> /\ p.duration # <<>>
        changes == p.title # <<>> \/ p.location # <<>> \/ startSet \/ endOnly
                   \/ p.noReminders \/ p.reminders # <<>>
    IN  IF startSet /\ newStart.thrown
        THEN UpdateFailed("Error: Cannot parse date/time", p.startTime)
        ELSE IF endOnly /\ target.start.dateTime = NoDay
        THEN UpdateFailed("Cannot change duration of all-day event", <<>>)
        ELSE IF ~changes THEN UpdateFailed("No update flags provided", <<>>)
        ELSE [ok |-> TRUE, message |-> "", errText |-> <<>>,
              body |-> [id |-> target.id, summary |-> p.title, location |-> p.location,
                        start |-> IF startSet THEN TimedValue(newStart.date) ELSE NoValue,
                        end |-> IF startSet
                                THEN [TimedValue(newStart.date) EXCEPT
                                         !.dateTime = @ + durationSecs]
                                ELSE IF endOnly
                                THEN [NoValue EXCEPT
                                         !.dateTime = target.start.dateTime
                                             + parseDuration(p.duration) * SecondsPerMinute,
                                         !.timeZone = LocalZone]
                                ELSE NoValue,
                        reminders |-> eventReminders(p)]]

\* case 'update' from const target = matches[0] to the call of updateEvent:
\* the body of the changes asked for, or the exit or the error thrown
\* instead of it.
updateBody(p, target, native) ==
    LET newStart == parseDateTime(p.startTime, Now, native)
        durationSecs ==
            IF p.duration # <<>> THEN parseDuration(p.duration) * SecondsPerMinute
            ELSE IF target.end.dateTime # NoDay /\ target.start.dateTime # NoDay
            THEN target.end.dateTime - target.start.dateTime
            ELSE MinutesPerHour * SecondsPerMinute
        startSet == p.startTime # <<>>
        endOnly == p.startTime = <<>> /\ p.duration # <<>>
        changes == p.title # <<>> \/ p.location # <<>> \/ startSet \/ endOnly
                   \/ p.noReminders \/ p.reminders # <<>>
    IN  IF startSet /\ newStart.thrown
        THEN UpdateFailed("Error: Cannot parse date/time", p.startTime)
        ELSE IF endOnly /\ target.start.dateTime = NoDay
        THEN UpdateFailed("Cannot change duration of all-day event", <<>>)
        ELSE IF ~changes THEN UpdateFailed("No update flags provided", <<>>)
        ELSE [ok |-> TRUE, message |-> "", errText |-> <<>>,
              body |-> [id |-> target.id, summary |-> p.title, location |-> p.location,
                        start |-> IF startSet THEN TimedValue(newStart.date) ELSE NoValue,
                        end |-> IF startSet
                                THEN [TimedValue(newStart.date) EXCEPT
                                         !.dateTime = @ + durationSecs]
                                ELSE IF endOnly
                                THEN [NoValue EXCEPT
                                         !.dateTime = target.start.dateTime
                                             + parseDuration(p.duration) * SecondsPerMinute,
                                         !.timeZone = LocalZone]
                                ELSE NoValue,
                        reminders |-> eventReminders(p)]]

\* The first match is the target when there are several.
updateAfterListFirstMatch(p, events, native) ==
    LET idPrefix == p.args[1]
        matches == SelectSeq(events, LAMBDA e : StartsWith(e.id, idPrefix))
    IN  IF matches = <<>> THEN UpdateFailed("not found", idPrefix)
        ELSE updateBody(p, matches[1], native)

\* case 'update' once listEvents has returned events: the one event whose
\* id starts with the prefix given is the target.
updateAfterList(p, events, native) ==
    LET idPrefix == p.args[1]
        matches == SelectSeq(events, LAMBDA e : StartsWith(e.id, idPrefix))
    IN  IF matches = <<>> THEN UpdateFailed("not found", idPrefix)
        ELSE IF Len(matches) > 1 THEN UpdateFailed("ambiguous", idPrefix)
        ELSE updateBody(p, matches[1], native)

\* const count = parsed.args[0] ? parseInt(parsed.args[0]) : parsed.count
ListCount(p) ==
    IF p.args # <<>> /\ p.args[1] # <<>> THEN parseInt(p.args[1]) ELSE Num(p.count)

\* authenticateOAuth settles: with a token, with no token, or by throwing
\* (what it does with the abort signal it was given is its own affair).
AuthReturn ==
    /\ pc = "auth"
    /\ \E outcome \in {"token", "none", "thrown"} :
        IF outcome = "token"
        THEN /\ token' = authCalls[Len(authCalls)].scope
             /\ IF parsed.command = <<"i", "m", "p", "o", "r", "t">>
                THEN pc' = "loadIcal" /\ calls' = calls
                ELSE /\ pc' = "request"
                     /\ calls' = Append(calls,
                            IF parsed.command = <<"l", "i", "s", "t">>
                            THEN listEvents(token', ListCount(parsed),
                                     parseTimeLimit(parsed.timeLimit, Today).date)
                            ELSE IF parsed.command = <<"a", "d", "d">>
                            THEN createEvent(token', newEvent, 0)
                            ELSE IF parsed.command = <<"u", "p", "d", "a", "t", "e">>
                                    \/ parsed.command \in DeleteNames
                            THEN listEvents(token', Num(UpdateListSize), NoDay)
                            ELSE listCalendars(token'))
             /\ UNCHANGED <<exitCode, stderr>>
        ELSE /\ pc' = "exited"
             /\ exitCode' = 1
             /\ stderr' = "Error: OAuth authentication failed"
             /\ UNCHANGED <<token, calls>>
    /\ UNCHANGED <<argv, nativeDate, config, credentials, disk, errText, newEvent, parsed, user, aborted, authCalls,
                   vevents, idx, result, out, call>>

\* An import that recorded errors ends with status 1.
ImportAdvanceFailing(loop) ==
    /\ idx' = loop.idx
    /\ result' = loop.result
    /\ IF loop.request
       THEN /\ pc' = "request"
            /\ UNCHANGED <<exitCode, out>>
       ELSE /\ pc' = "exited"
            /\ exitCode' = IF loop.result.errors = <<>> THEN 0 ELSE 1
            /\ out' = <<loop.result.imported, Len(loop.result.errors)>>

\* The import loop has reached loop: either its next event is sent, or the
\* import is over, its counts are printed and main ends.
ImportAdvance(loop) ==
    /\ idx' = loop.idx
    /\ result' = loop.result
    /\ IF loop.request
       THEN /\ pc' = "request"
            /\ UNCHANGED <<exitCode, out>>
       ELSE /\ pc' = "exited"
            /\ exitCode' = 0
            /\ out' = <<loop.result.imported, Len(loop.result.errors)>>

\* importIcsFile after await import('ical.js'): the file is read and
\* parsed, and the loop runs to its first createEvent.
IcalLoaded ==
    /\ pc = "loadIcal"
    /\ IF ~disk.parses
       THEN /\ vevents' = <<>>
            /\ ImportAdvance([idx |-> 0, request |-> FALSE,
                   result |-> [imported |-> 0,
                               errors |-> <<[summary |-> "Parse error",
                                             message |-> "parse"]>>]])
            /\ calls' = calls
       ELSE LET loop == importLoop(disk.vevents, 1, [imported |-> 0, errors |-> <<>>])
            IN  /\ vevents' = disk.vevents
                /\ ImportAdvance(loop)
                /\ calls' = IF loop.request
                            THEN Append(calls, createEvent(token,
                                     mapRecord(disk.vevents[loop.idx]), loop.idx))
                            ELSE calls
    /\ UNCHANGED <<argv, nativeDate, config, credentials, disk, stderr, errText, newEvent, parsed, user, token,
                   aborted, authCalls, call>>

\* What fetch can do with request c: it is aborted once the signal it was
\* given has fired; otherwise the service answers 2xx or not.
FetchOutcomes(c) ==
    IF c.signal /\ aborted THEN {"aborted"} ELSE {"ok", "error"}

\* res.status of an answer that is not 2xx, as the error messages quote it.
ErrorStatuses == {<<"4", "0", "4">>, <<"5", "0", "0">>}

\* The upcoming events the service may hold: a timed one, an all-day one
\* and a birthday.
RemoteEvents ==
    {[id |-> <<"e", "1">>, eventType |-> "default",
      start |-> TimedValue(DateAt(Today + 2, 540, 0)),
      end |-> TimedValue(DateAt(Today + 2, 570, 0))],
     [id |-> <<"e", "2">>, eventType |-> "default",
      start |-> [NoValue EXCEPT !.date = Today + 3],
      end |-> [NoValue EXCEPT !.date = Today + 4]],
     [id |-> <<"b", "1">>, eventType |-> "birthday",
      start |-> [NoValue EXCEPT !.date = Today + 5],
      end |-> [NoValue EXCEPT !.date = Today + 6]]}

\* What the service may list: no event twice.
RemoteLists ==
    {items \in StringsUpTo(RemoteEvents, MaxEvents) :
        \A i, j \in 1..Len(items) : items[i] = items[j] => i = j}

\* What the answer to request c carries: the status of an error, and for a
\* list that succeeds at most maxResults events (a list request whose
\* maxResults is no positive number is not answered 2xx).
Replies(c, outcome) ==
    IF outcome = "error" THEN ErrorStatuses
    ELSE IF outcome = "ok" /\ c.op = "list"
    THEN {items \in RemoteLists :
             ~c.body.maxResults.nan /\ Len(items) <= c.body.maxResults.val}
    ELSE {<<>>}

Settled(i, outcome, reply) ==
    [calls EXCEPT ![i].status = outcome, ![i].reply = reply]

\* The createEvent of the import loop settles; the loop goes on.
CreateEventResponse ==
    /\ pc = "request"
    /\ parsed.command = <<"i", "m", "p", "o", "r", "t">>
    /\ \E i \in Pending : \E outcome \in FetchOutcomes(calls[i]) :
       \E reply \in Replies(calls[i], outcome) :
        /\ calls[i].op = "create"
        /\ LET res == IF outcome = "ok" THEN ImportCreated(result)
                      ELSE ImportFailed(result, vevents[idx],
                               IF outcome = "error"
                               THEN <<"Failed to create event", reply>>
                               ELSE "aborted")
               loop == importLoop(vevents, idx + 1, res)
           IN  /\ ImportAdvance(loop)
               /\ calls' = IF loop.request
                           THEN Append(Settled(i, outcome, reply),
                                    createEvent(token, mapRecord(vevents[loop.idx]),
                                                loop.idx))
                           ELSE Settled(i, outcome, reply)
    /\ UNCHANGED <<argv, nativeDate, config, credentials, disk, stderr, errText, newEvent, parsed, user, token,
                   aborted, authCalls, vevents, call>>

IsBirthday(e) == e.eventType = "birthday"

\* No event is filtered out.
NotBirthdayKeepsAll(e) == TRUE

NotBirthday(e) == e.eventType # "birthday"

\* The status is left out of the message.
RequestFailedStatusLost(message, reply) ==
    /\ pc' = "exited"
    /\ exitCode' = 1
    /\ stderr' = message
    /\ errText' = <<>>

\* A request outside the import loop was not answered 2xx (or was aborted):
\* the error thrown ends main with the message that quotes the status.
RequestFailed(message, reply) ==
    /\ pc' = "exited"
    /\ exitCode' = 1
    /\ stderr' = message
    /\ errText' = reply

\* The listEvents of the list command settles: the events are filtered and
\* printed, or the error ends main.
ListEventsResponse ==
    /\ pc = "request"
    /\ parsed.command = <<"l", "i", "s", "t">>
    /\ \E i \in Pending : \E outcome \in FetchOutcomes(calls[i]) :
       \E reply \in Replies(calls[i], outcome) :
        /\ calls[i].op = "list"
        /\ calls' = Settled(i, outcome, reply)
        /\ IF outcome = "ok"
           THEN /\ out' = [shown |-> IF parsed.birthdays THEN reply
                                     ELSE SelectSeq(reply, NotBirthday),
                           hidden |-> IF parsed.birthdays THEN 0
                                      ELSE Len(SelectSeq(reply, IsBirthday))]
                /\ pc' = "exited"
                /\ exitCode' = 0
                /\ UNCHANGED <<stderr, errText>>
           ELSE /\ out' = out
                /\ RequestFailed("Error: Failed to list events", reply)
    /\ UNCHANGED <<argv, nativeDate, config, credentials, disk, newEvent, parsed, user, token, aborted,
                   authCalls, vevents, idx, result, call>>

\* The listCalendars of the calendars command settles.
ListCalendarsResponse ==
    /\ pc = "request"
    /\ \E i \in Pending : \E outcome \in FetchOutcomes(calls[i]) :
       \E reply \in Replies(calls[i], outcome) :
        /\ calls[i].op = "calendarList"
        /\ calls' = Settled(i, outcome, reply)
        /\ IF outcome = "ok"
           THEN pc' = "exited" /\ exitCode' = 0 /\ UNCHANGED <<stderr, errText>>
           ELSE RequestFailed("Error: Failed to list calendars", reply)
    /\ UNCHANGED <<argv, nativeDate, config, credentials, disk, newEvent, parsed, user, token, aborted,
                   authCalls, vevents, idx, result, out, call>>

\* The createEvent of add settles: the created event is printed as the
\* service returned it, or the error ends main.  The service returns the
\* start and end it was sent.
AddResponse ==
    /\ pc = "request"
    /\ parsed.command = <<"a", "d", "d">>
    /\ \E i \in Pending : \E outcome \in FetchOutcomes(calls[i]) :
       \E reply \in Replies(calls[i], outcome) :
        /\ calls[i].op = "create"
        /\ calls' = Settled(i, outcome, reply)
        /\ IF outcome = "ok"
           THEN /\ out' = [summary |-> calls[i].body.summary,
                           start |-> formatDateTime(calls[i].body.start),
                           end |-> formatDateTime(calls[i].body.end)]
                /\ pc' = "exited"
                /\ exitCode' = 0
                /\ UNCHANGED <<stderr, errText>>
           ELSE /\ out' = out
                /\ RequestFailed("Error: Failed to create event", reply)
    /\ UNCHANGED <<argv, nativeDate, config, credentials, disk, newEvent, parsed, user, token,
                   aborted, authCalls, vevents, idx, result, call>>

\* The listEvents of update settles: the target is looked up and the
\* changes are sent, or main ends.
UpdateListResponse ==
    /\ pc = "request"
    /\ parsed.command = <<"u", "p", "d", "a", "t", "e">>
    /\ \E i \in Pending : \E outcome \in FetchOutcomes(calls[i]) :
       \E reply \in Replies(calls[i], outcome) :
        /\ calls[i].op = "list"
        /\ IF outcome = "ok"
           THEN \E r \in {updateAfterList(parsed, reply, nativeDate)} :
                     IF r.ok
                     THEN /\ calls' = Append(Settled(i, outcome, reply),
                                         updateEvent(token, r.body.id, r.body))
                          /\ UNCHANGED <<pc, exitCode, stderr, errText>>
                     ELSE /\ calls' = Settled(i, outcome, reply)
                          /\ RequestFailed(r.message, r.errText)
           ELSE /\ calls' = Settled(i, outcome, reply)
                /\ RequestFailed("Error: Failed to list events", reply)
    /\ UNCHANGED <<argv, nativeDate, config, credentials, disk, newEvent, parsed, user, token, aborted,
                   authCalls, vevents, idx, result, out, call>>

\* The updateEvent of update settles.
UpdateResponse ==
    /\ pc = "request"
    /\ \E i \in Pending : \E outcome \in FetchOutcomes(calls[i]) :
       \E reply \in Replies(calls[i], outcome) :
        /\ calls[i].op = "update"
        /\ calls' = Settled(i, outcome, reply)
        /\ IF outcome = "ok"
           THEN /\ out' = [updated |-> calls[i].body.id]
                /\ pc' = "exited"
                /\ exitCode' = 0
                /\ UNCHANGED <<stderr, errText>>
           ELSE /\ out' = out
                /\ RequestFailed("Error: Failed to update event", reply)
    /\ UNCHANGED <<argv, nativeDate, config, credentials, disk, newEvent, parsed, user, token,
                   aborted, authCalls, vevents, idx, result, call>>

\* The first match is deleted when there are several.
RECURSIVE deleteLoopFirstMatch(_, _, _, _, _)
deleteLoopFirstMatch(events, p, k, message, text) ==
    IF k > Len(p.args)
    THEN [idx |-> k, request |-> FALSE, id |-> <<>>, message |-> message, text |-> text]
    ELSE LET idPrefix == p.args[k]
             matches == SelectSeq(events, LAMBDA e : StartsWith(e.id, idPrefix))
         IN  IF matches = <<>>
             THEN deleteLoopFirstMatch(events, p, k + 1, "not found", idPrefix)
             ELSE IF IsBirthday(matches[1]) /\ ~p.birthdays
             THEN deleteLoopFirstMatch(events, p, k + 1, message, text)
             ELSE [idx |-> k, request |-> TRUE, id |-> matches[1].id,
                   message |-> message, text |-> text]

\* The for loop of delete from argument k on, up to its next deleteEvent
\* call (request TRUE, for the event id) or its end; message and text are
\* the last report written with console.error.
RECURSIVE deleteLoop(_, _, _, _, _)
deleteLoop(events, p, k, message, text) ==
    IF k > Len(p.args)
    THEN [idx |-> k, request |-> FALSE, id |-> <<>>, message |-> message, text |-> text]
    ELSE LET idPrefix == p.args[k]
             matches == SelectSeq(events, LAMBDA e : StartsWith(e.id, idPrefix))
         IN  IF matches = <<>>
             THEN deleteLoop(events, p, k + 1, "not found", idPrefix)
             ELSE IF Len(matches) > 1
             THEN deleteLoop(events, p, k + 1, "ambiguous", idPrefix)
             ELSE IF IsBirthday(matches[1]) /\ ~p.birthdays
             THEN deleteLoop(events, p, k + 1, message, text)
             ELSE [idx |-> k, request |-> TRUE, id |-> matches[1].id,
                   message |-> message, text |-> text]

\* The delete loop has reached loop: its next event is deleted, or main
\* ends.
DeleteAdvance(settled, loop) ==
    /\ idx' = loop.idx
    /\ stderr' = loop.message
    /\ errText' = loop.text
    /\ IF loop.request
       THEN /\ calls' = Append(settled, deleteEvent(token, loop.id))
            /\ UNCHANGED <<pc, exitCode>>
       ELSE /\ calls' = settled
            /\ pc' = "exited"
            /\ exitCode' = 0

\* The listEvents of delete settles: the loop over the id prefixes starts.
DeleteListResponse ==
    /\ pc = "request"
    /\ parsed.command \in DeleteNames
    /\ \E i \in Pending : \E outcome \in FetchOutcomes(calls[i]) :
       \E reply \in Replies(calls[i], outcome) :
        /\ calls[i].op = "list"
        /\ IF outcome = "ok"
           THEN \E loop \in {deleteLoop(reply, parsed, 1, stderr, errText)} :
                    DeleteAdvance(Settled(i, outcome, reply), loop)
           ELSE /\ calls' = Settled(i, outcome, reply)
                /\ idx' = idx
                /\ RequestFailed("Error: Failed to list events", reply)
    /\ UNCHANGED <<argv, nativeDate, config, credentials, disk, newEvent, parsed, user, token, aborted,
                   authCalls, vevents, result, out, call>>

\* The deleteEvent of delete settles: the loop goes on over the events
\* listed at the start, or the error ends main.
DeleteResponse ==
    /\ pc = "request"
    /\ \E i \in Pending : \E outcome \in FetchOutcomes(calls[i]) :
       \E reply \in Replies(calls[i], outcome) :
        /\ calls[i].op = "delete"
        /\ IF outcome = "ok"
           THEN /\ \E loop \in {deleteLoop(calls[1].reply, parsed, idx + 1, stderr, errText)} :
                      DeleteAdvance(Settled(i, outcome, reply), loop)
                /\ out' = Append(out, calls[i].body.id)
           ELSE /\ calls' = Settled(i, outcome, reply)
                /\ idx' = idx
                /\ out' = out
                /\ RequestFailed("Error: Failed to delete event", reply)
    /\ UNCHANGED <<argv, nativeDate, config, credentials, disk, newEvent, parsed, user, token, aborted,
                   authCalls, vevents, result, call>>

\* The SIGINT handler of setupAbortHandler: the controller is aborted, and
\* the process goes on.  Requests in flight are marked as interrupted.
Sigint ==
    /\ pc \in {"auth", "loadIcal", "request"}
    /\ ~aborted
    /\ aborted' = TRUE
    /\ calls' = [i \in 1..Len(calls) |->
                   IF calls[i].status = "pending"
                   THEN [calls[i] EXCEPT !.interrupted = TRUE] ELSE calls[i]]
    /\ UNCHANGED <<argv, nativeDate, config, credentials, disk, pc, exitCode, stderr, errText, newEvent, parsed,
                   user,
                   token, authCalls, vevents, idx, result, out, call>>

(***************************************************************************)
(* The command lines, configurations and files the commands are run on.    *)
(***************************************************************************)
Commands ==
    {<<>>, <<<<"l", "i", "s", "t">>>>, <<<<"c", "a", "l", "e", "n", "d", "a", "r", "s">>>>, <<<<"i", "m", "p", "o", "r", "t">>, <<"a", ".", "i", "c", "s">>>>,
     <<<<"a", "d", "d">>, <<"T">>, <<"2", "3", ":", "3", "0">>>>, <<<<"u", "p", "d", "a", "t", "e">>, <<"e", "1">>>>, <<<<"d", "e", "l", "e", "t", "e">>, <<"e">>>>}

OptionGroups ==
    {<<<<"-", "l", "i", "m", "i", "t">>, <<"2", "w">>>>, <<<<"-", "l", "i", "m", "i", "t">>, <<"x", "y">>>>, <<<<"-", "r">>, <<"3", "0", "m">>>>,
     <<<<"-", "r">>, <<"1", "h", ":", "e", "m", "a", "i", "l", ",", " ", "x">>>>, <<<<"-", "h">>>>, <<<<"-", "u">>, <<"A", ".", "b", "@", "x">>>>,
     <<<<"-", "d", "e", "f", "a", "u", "l", "t", "U", "s", "e", "r">>, <<"c", "@", "x">>>>, <<<<"-", "x">>>>, <<<<"-", "n">>, <<"-", "y">>>>, <<<<"-", "y">>>>}

RECURSIVE Flatten(_)
Flatten(groups) ==
    IF groups = <<>> THEN <<>> ELSE groups[1] \o Flatten(Tail(groups))

ArgvSet ==
    {c \o Flatten(g) : c \in Commands, g \in StringsUpTo(OptionGroups, MaxOptions)}

AllDay(day) == [present |-> TRUE, isDate |-> TRUE, day |-> day, tzid |-> ""]

Timed(day, tzid) == [present |-> TRUE, isDate |-> FALSE, day |-> day, tzid |-> tzid]

\* The records of an .ics file: an all-day event, a timed one with a zone
\* on its end only, one with a date-only DTSTART, a date-time DTEND and no
\* SUMMARY, and one whose mapping throws.
RecordKinds ==
    {[summary |-> "Alpha", startDate |-> AllDay(1), endDate |-> AllDay(2),
      malformed |-> FALSE],
     [summary |-> "Beta", startDate |-> Timed(1, ""), endDate |-> Timed(1, "Europe/Paris"),
      malformed |-> FALSE],
     [summary |-> "", startDate |-> AllDay(1), endDate |-> Timed(2, ""),
      malformed |-> FALSE],
     [summary |-> "Delta", startDate |-> AllDay(1), endDate |-> AllDay(2),
      malformed |-> TRUE]}

Unparsable == [parses |-> FALSE, vevents |-> <<>>]

IcsFiles ==
    {Unparsable} \cup {[parses |-> TRUE, vevents |-> v] : v \in StringsUpTo(RecordKinds, MaxRecords)}

SmallFile ==
    [parses |-> TRUE,
     vevents |-> <<[summary |-> "Alpha", startDate |-> AllDay(1), endDate |-> AllDay(2),
                    malformed |-> FALSE]>>]

InitWith(argvs, files) ==
    /\ argv \in argvs
    /\ config \in {[lastUser |-> <<>>], [lastUser |-> <<"b", "o", "b">>]}
    /\ credentials \in BOOLEAN
    /\ disk \in files
    /\ nativeDate \in NativeAnswers
    /\ pc = "start"
    /\ exitCode = 0
    /\ stderr = ""
    /\ errText = <<>>
    /\ newEvent = <<>>
    /\ parsed = <<>>
    /\ user = <<>>
    /\ token = ""
    /\ aborted = FALSE
    /\ authCalls = <<>>
    /\ calls = <<>>
    /\ vevents = <<>>
    /\ idx = 0
    /\ result = [imported |-> 0, errors |-> <<>>]
    /\ out = <<>>
    /\ call = [fn |-> "none"]

\* Every command line of ArgvSet, on a file of one event.
Init == InitWith(ArgvSet, {SmallFile})

Next ==
    \/ Start
    \/ AuthReturn
    \/ IcalLoaded
    \/ CreateEventResponse
    \/ ListEventsResponse
    \/ ListCalendarsResponse
    \/ AddResponse
    \/ UpdateListResponse
    \/ UpdateResponse
    \/ DeleteListResponse
    \/ DeleteResponse
    \/ Sigint

Spec == Init /\ [][Next]_vars

\* The reminder options given to add and update.
ReminderOptions ==
    {<<<<"-", "r">>, <<"0">>>>, <<<<"-", "r", "e", "m", "i", "n", "d", "e", "r">>, <<"n", "o", "n", "e">>>>,
     <<<<"-", "r">>, <<"3", "0", "m">>>>, <<<<"-", "r">>, <<"1", "h", ":", "e", "m", "a", "i", "l", ",", "1", "0">>>>}

\* add with a title alone, and with every <when> of five and every
\* duration of four (the first: none).
AddCommands ==
    {<<<<"a", "d", "d">>, <<"T">>>>}
    \cup {<<<<"a", "d", "d">>, <<"T">>, when>> \o dur :
            when \in {<<"t", "o", "m", "o", "r", "r", "o", "w", " ", "1", "0", "a", "m">>,
                      <<"t", "o", "d", "a", "y">>, <<"2", "3", ":", "3", "0">>,
                      <<"f", "r", "i", "d", "a", "y", " ", "9">>, <<"x", "y", "z">>},
            dur \in {<<>>, <<<<"1", "h">>>>, <<<<"1", "h", "3", "0", "m">>>>, <<<<"4", "5">>>>}}

\* update with no id, and with an id prefix and no change, one change, or
\* a start and a duration.
UpdateCommands ==
    {<<<<"u", "p", "d", "a", "t", "e">>>>}
    \cup {<<<<"u", "p", "d", "a", "t", "e">>, id>> \o change :
            id \in {<<"e", "1">>, <<"e">>, <<"z">>},
            change \in {<<>>, <<<<"-", "t", "i", "t", "l", "e">>, <<"X">>>>,
                        <<<<"-", "s", "t", "a", "r", "t">>, <<"t", "o", "m", "o", "r", "r", "o", "w", " ", "1", "0", "a", "m">>>>,
                        <<<<"-", "s", "t", "a", "r", "t">>, <<"x", "y", "z">>>>,
                        <<<<"-", "d", "u", "r">>, <<"3", "0", "m">>>>,
                        <<<<"-", "s", "t", "a", "r", "t">>, <<"t", "o", "m", "o", "r", "r", "o", "w", " ", "1", "0", "a", "m">>, <<"-", "d", "u", "r">>, <<"1", "h", "3", "0", "m">>>>}}

\* delete with no id, and del and delete with one or two id prefixes, with
\* and without -b.
DeleteCommands ==
    {<<<<"d", "e", "l", "e", "t", "e">>>>}
    \cup {<<name>> \o ids \o b :
            name \in DeleteNames,
            ids \in StringsUpTo({<<"e", "1">>, <<"e">>, <<"z">>, <<"b">>}, 2) \ {<<>>},
            b \in {<<>>, <<<<"-", "b">>>>}}

EditArgvs ==
    {c \o Flatten(g) : c \in AddCommands \cup UpdateCommands,
                       g \in StringsUpTo(ReminderOptions, MaxOptions)}
        \cup DeleteCommands

EditInit == InitWith(EditArgvs, {SmallFile})

EditNext ==
    \/ Start
    \/ AuthReturn
    \/ AddResponse
    \/ UpdateListResponse
    \/ UpdateResponse
    \/ DeleteListResponse
    \/ DeleteResponse
    \/ Sigint

\* The list command with no count and with the counts 1, 2, 0 and abc.
ListArgvs ==
    {<<<<"l", "i", "s", "t">>>> \o count \o option :
        count \in {<<>>, <<<<"1">>>>, <<<<"2">>>>, <<<<"0">>>>, <<<<"a", "b", "c">>>>},
        option \in {<<>>, <<<<"-", "b">>>>, <<<<"-", "b", "i", "r", "t", "h", "d", "a", "y", "s">>>>, <<<<"-", "n">>, <<"1">>>>}}

ListInit == InitWith(ListArgvs, {SmallFile})

ListNext ==
    \/ Start
    \/ AuthReturn
    \/ ListEventsResponse
    \/ Sigint

SpecList == ListInit /\ [][ListNext]_vars

\* The add, update and delete commands on every command line of EditArgvs.
SpecEdit == EditInit /\ [][EditNext]_vars

\* The import command on every file of IcsFiles.
ImportArgvs ==
    {<<<<"i", "m", "p", "o", "r", "t">>, <<"a", ".", "i", "c", "s">>, <<"-", "u">>, <<"A", ".", "b", "@", "x">>>>, <<<<"a", ".", "i", "c", "s">>>>}

ImportInit == InitWith(ImportArgvs, IcsFiles)

ImportNext ==
    \/ Start
    \/ AuthReturn
    \/ IcalLoaded
    \/ CreateEventResponse
    \/ Sigint

SpecImport == ImportInit /\ [][ImportNext]_vars

(***************************************************************************)
(* Properties of importIcsFile, checked under SpecImport.                  *)
(***************************************************************************)
\* importIcsFile has returned to main and its counts are printed.
ImportReturned == pc = "exited" /\ out # <<>>

CreateCallsFor(k) ==
    {i \in 1..Len(calls) : calls[i].op = "create" /\ calls[i].rec = k}

\* The records that failed: the mapping threw, or the create call was
\* answered with an error.
FailedRecords ==
    {k \in 1..Len(vevents) :
        \/ vevents[k].malformed
        \/ \E i \in CreateCallsFor(k) : calls[i].status = "error"}

SummaryOrUnknown(vevent) ==
    IF vevent.summary = "" THEN "unknown" ELSE vevent.summary

\* C1: when importIcsFile has processed a file of N records of which exactly
\* one, K, failed (mapping threw or create answered with an error), then
\* imported = N - 1, there is exactly one error, it begins with K's summary
\* ("unknown" without one), and a create call was issued for every other
\* record, before and after K.
C1_FailureIsolation ==
    ImportReturned =>
        \A K \in 1..Len(vevents) :
            FailedRecords = {K} =>
                /\ result.imported = Len(vevents) - 1
                /\ Len(result.errors) = 1
                /\ result.errors[1].summary = SummaryOrUnknown(vevents[K])
                /\ out = <<Len(vevents) - 1, 1>>
                /\ \A j \in 1..Len(vevents) : j # K => CreateCallsFor(j) # {}

\* A file of three records whose second, Beta, is refused by the service.
C1_Witness ==
    /\ ImportReturned
    /\ Len(vevents) = 3
    /\ FailedRecords = {2}
    /\ ~vevents[2].malformed
    /\ vevents[2].summary = "Beta"
    /\ result.imported = 2
    /\ result.errors[1].summary = "Beta"
    /\ CreateCallsFor(1) # {} /\ CreateCallsFor(3) # {}

\* C2: import is strictly sequential: create calls are issued in file
\* order, at most one of them is in flight, and while the call of record r
\* is in flight every record before r has been counted as imported or has
\* its error recorded (and no later one has).
C2_Sequential ==
    /\ Cardinality(Pending) <= 1
    /\ \A i, j \in 1..Len(calls) :
          (i < j /\ calls[i].op = "create" /\ calls[j].op = "create")
              => calls[i].rec < calls[j].rec
    /\ \A i \in Pending :
          calls[i].op = "create" =>
              /\ i = Len(calls)
              /\ calls[i].rec = idx
              /\ result.imported + Len(result.errors) = calls[i].rec - 1

\* The third record's create call is in flight after one success and one
\* failure.
C2_Witness ==
    /\ Len(calls) = 3
    /\ calls[1].status = "ok"
    /\ calls[2].status = "error"
    /\ calls[3].status = "pending" /\ calls[3].rec = 3
    /\ result.imported = 1
    /\ Len(result.errors) = 1

\* C3: a remote request that was in flight when SIGINT fired is aborted: it
\* never completes normally, and the command does not end with a normal
\* outcome.
C3_InterruptAborts ==
    \A i \in 1..Len(calls) :
        calls[i].interrupted =>
            /\ calls[i].status \in {"pending", "aborted"}
            /\ pc = "exited" => exitCode # 0

AllDayForm(t) == t.date # NoDay /\ t.dateTime = NoDay /\ t.timeZone = ""

TimedForm(t) == t.date = NoDay /\ t.dateTime # NoDay /\ t.timeZone # ""

\* C4: every event body sent has start and end in the same form, both
\* all-day or both timed.
C4_SameForm ==
    \A i \in 1..Len(calls) :
        calls[i].op = "create" =>
            \/ AllDayForm(calls[i].body.start) /\ AllDayForm(calls[i].body.end)
            \/ TimedForm(calls[i].body.start) /\ TimedForm(calls[i].body.end)

ValueFlags ==
    UserFlags \cup DefaultUserFlags \cup CalendarFlags \cup CountFlags
        \cup LimitFlags \cup TitleFlags \cup LocationFlags \cup StartFlags
        \cup DurationFlags \cup ReminderFlags

\* args[i] is the value of the option before it.
RECURSIVE IsValue(_, _)
IsValue(args, i) ==
    i > 1 /\ args[i - 1] \in ValueFlags /\ ~IsValue(args, i - 1)

OptionPositions(args, flags) ==
    {i \in 1..Len(args) : args[i] \in flags /\ ~IsValue(args, i)}

ValueAt(args, i) == IF i + 1 <= Len(args) THEN args[i + 1] ELSE <<>>

\* <digits><spaces><one optional unit letter of U>, and nothing else.
MatchesGrammar(v, U) ==
    \E e \in 1..Len(v) : \E w \in e..Len(v) :
        /\ \A x \in 1..e : v[x] \in Digits
        /\ \A x \in (e + 1)..w : v[x] \in WhiteSpace
        /\ w = Len(v) \/ (w + 1 = Len(v) /\ v[w + 1] \in U)

\* Some -limit option has a value outside the time-limit grammar.
InvalidLimitGiven(args) ==
    \E i \in OptionPositions(args, LimitFlags) :
        ValueAt(args, i) # <<>> /\ ~MatchesGrammar(ValueAt(args, i), TimeLimitUnits)

\* The last -limit option has a value outside the time-limit grammar.
LastLimitInvalid(args) ==
    \E i \in OptionPositions(args, LimitFlags) :
        /\ \A j \in OptionPositions(args, LimitFlags) : j <= i
        /\ ValueAt(args, i) # <<>>
        /\ ~MatchesGrammar(ValueAt(args, i), TimeLimitUnits)

\* Some -r option, other than the ones that switch reminders off, has a
\* comma-separated part whose time part is outside the reminder grammar.
InvalidReminderGiven(args) ==
    \E i \in OptionPositions(args, ReminderFlags) :
        LET v == ValueAt(args, i)
            parts == Split(v, ",")
        IN  /\ v \notin {<<"0">>, <<"n", "o", "n", "e">>}
            /\ \E k \in 1..Len(parts) :
                   ~MatchesGrammar(Split(Trim(parts[k]), ":")[1], ReminderUnits)

Positionals(args) ==
    {i \in 1..Len(args) :
        /\ ~IsValue(args, i)
        /\ args[i] \notin HelpFlags
        /\ ~StartsWith(args[i], <<"-">>)}

\* The command is list: the first argument that is no option and no value.
ListCommandGiven(args) ==
    \E i \in Positionals(args) :
        /\ \A j \in Positionals(args) : i <= j
        /\ args[i] = <<"l", "i", "s", "t">>

HelpRequested(args) == OptionPositions(args, HelpFlags) # {}

\* The run ended at once with status 1, with no authentication and no
\* remote request.
FailedHard ==
    /\ pc = "exited"
    /\ exitCode = 1
    /\ authCalls = <<>>
    /\ calls = <<>>

\* C10 as stated: a -limit value outside the time-limit grammar, or a -r
\* part whose time part is outside the reminder grammar, ends the command
\* with a non-zero status, and the run authenticates nothing and sends no
\* remote request.
C10_StrictParsersFailHard ==
    (pc # "start" /\ (InvalidLimitGiven(argv) \/ InvalidReminderGiven(argv)))
        => /\ pc = "exited"
           /\ exitCode # 0
           /\ authCalls = <<>>
           /\ calls = <<>>

\* C10, amended: a -r part outside the reminder grammar always ends the run
\* with status 1 before any authentication or remote request; a -limit
\* value outside the time-limit grammar does so when it is the last -limit
\* given, the command is list and help is not requested.
C10_StrictParsersAmended ==
    (/\ pc # "start"
     /\ \/ InvalidReminderGiven(argv)
        \/ LastLimitInvalid(argv) /\ ListCommandGiven(argv) /\ ~HelpRequested(argv))
        => FailedHard

\* gcal list -limit xy, with a user configured, ended by parseTimeLimit.
C10_Witness ==
    /\ FailedHard
    /\ stderr = "Invalid time limit"
    /\ LastLimitInvalid(argv)
    /\ ListCommandGiven(argv)
    /\ ~InvalidReminderGiven(argv)

(***************************************************************************)
(* parseReminder applied to <time part><suffix>, for every short time part *)
(* over ReminderAlphabet and every suffix of ReminderSuffixes.             *)
(***************************************************************************)
ReminderAlphabet == {"0", "1", "2", "m", "h", "D", " ", "x"}

ReminderSuffixes ==
    {<<>>, <<":", "e", "m", "a", "i", "l">>, <<":", "p", "o", "p", "u", "p">>, <<":", "E", "m", "a", "i", "l">>, <<":">>, <<":", "e", "m", "a", "i", "l", ":", "x">>, <<":", "e", "m", "a", "i", "l", " ">>}

ReminderInit ==
    /\ MainIdle
    /\ \E t \in StringsUpTo(ReminderAlphabet, MaxReminderLen), x \in ReminderSuffixes :
          call = [fn |-> "parseReminder", arg |-> t \o x, time |-> t, suffix |-> x,
                  state |-> "called",
                  result |-> [method |-> "", minutes |-> 0]]

CallParseReminder ==
    /\ call.fn = "parseReminder"
    /\ call.state = "called"
    /\ LET r == parseReminder(call.arg)
       IN  call' = [call EXCEPT !.state = IF r.exit THEN "exited" ELSE "returned",
                                !.result = [method |-> r.method, minutes |-> r.minutes]]
    /\ UNCHANGED mainVars

ReminderNext == CallParseReminder

SpecReminder == ReminderInit /\ [][ReminderNext]_vars

\* The minutes the claim promises for the time part t = <N><spaces><unit>.
ReminderMinutesAsClaimed(t) ==
    LET last == t[Len(t)]
        N == DecimalValue(SelectSeq(t, LAMBDA c : c \in Digits))
    IN  CASE last \in {"h", "H"} -> 60 * N
          [] last \in {"d", "D"} -> 1440 * N
          [] OTHER -> N

\* C11: for every reminder part <N><unit>[:method] that parseReminder
\* accepts, minutes is N for m or no unit, 60*N for h, 1440*N for d, and
\* method is email exactly when the text after the colon is "email"; any
\* other suffix, or none, gives popup.
C11_ReminderUnitsAndMethod ==
    Returned("parseReminder") =>
        /\ call.result.minutes = ReminderMinutesAsClaimed(call.time)
        /\ call.result.method = IF call.suffix = <<":", "e", "m", "a", "i", "l">> THEN "email" ELSE "popup"

(***************************************************************************)
(* parseDateTime applied to the inputs of WhenForms: every form of its     *)
(* grammar, written from its parts, at the instants of Nows.               *)
(***************************************************************************)
HourTexts == {<<"0">>, <<"1">>, <<"1", "1">>, <<"1", "2">>, <<"1", "3">>, <<"2", "4">>}

MinuteTexts == {<<>>, <<"0", "5">>, <<"6", "0">>}

NoTimeForm == [hour |-> <<>>, min |-> <<>>, sp |-> <<>>, ampm |-> <<>>]

TimeForms ==
    {[hour |-> h, min |-> m, sp |-> s, ampm |-> a] :
        h \in HourTexts, m \in MinuteTexts, s \in {<<>>, <<" ">>},
        a \in {<<>>, <<"a", "m">>, <<"p", "m">>, <<"P", "M">>}}

ShortTimeForms ==
    {t \in TimeForms : t.hour \in {<<"1">>, <<"1", "2">>, <<"2", "4">>} /\ t.min # <<"6", "0">> /\ t.sp = <<>>}

TimeText(t) ==
    t.hour \o (IF t.min = <<>> THEN <<>> ELSE <<":">> \o t.min) \o t.sp \o t.ampm

WhenForm(kind, word, next, at, time, day, year, arg) ==
    [kind |-> kind, word |-> word, next |-> next, at |-> at, time |-> time,
     day |-> day, year |-> year, arg |-> arg]

RelativeForms ==
    {WhenForm("relative", w, FALSE, at, t, <<>>, <<>>, w \o <<" ">> \o at \o TimeText(t)) :
        w \in {<<"t", "o", "d", "a", "y">>, <<"T", "o", "m", "o", "r", "r", "o", "w">>}, at \in {<<>>, <<"a", "t", " ">>}, t \in TimeForms}

WeekdayForms ==
    {WhenForm("weekday", weekdays[k], n, <<>>, t, <<>>, <<>>,
              (IF n THEN <<"n", "e", "x", "t", " ">> ELSE <<>>) \o weekdays[k] \o <<" ">> \o TimeText(t)) :
        k \in 1..7, n \in BOOLEAN, t \in TimeForms}

MonthForms ==
    {WhenForm("month", m, FALSE, <<>>, t, d, y,
              m \o <<" ">> \o d \o (IF y = <<>> THEN <<>> ELSE <<" ">> \o y)
                \o (IF t = NoTimeForm THEN <<>> ELSE <<" ">> \o TimeText(t))) :
        m \in {<<"j", "a", "n">>, <<"F", "e", "b", "r", "u", "a", "r", "y">>, <<"d", "e", "c">>}, d \in {<<"1">>, <<"1", "5">>, <<"3", "1">>, <<"3", "2">>},
        y \in {<<>>, <<"2", "0", "2", "7">>}, t \in ShortTimeForms \cup {NoTimeForm}}

NumericForms ==
    {WhenForm("slash", <<>>, FALSE, <<>>, NoTimeForm, <<>>, <<>>, a) :
        a \in {<<"1", "/", "1", "4", "/", "2", "0", "2", "6", " ", "1", "2", ":", "0", "0">>, <<"1", "2", "/", "3", "1", "/", "2", "0", "2", "6", " ", "2", "4", ":", "0", "0">>}}
    \cup {WhenForm("iso", <<>>, FALSE, <<>>, NoTimeForm, <<>>, <<>>, a) :
        a \in {<<"2", "0", "2", "6", "-", "1", "-", "5", " ", "7", ":", "4", "5">>, <<"2", "0", "2", "7", "-", "0", "2", "-", "3", "0", " ", "0", ":", "0", "0">>}}

\* A time alone: H:MM, H[:MM] am|pm, or a bare number.
TimeOnlyForms ==
    {WhenForm("time", <<>>, FALSE, <<>>, t, <<>>, <<>>, TimeText(t)) : t \in TimeForms}

OtherForms ==
    {WhenForm("other", <<>>, FALSE, <<>>, NoTimeForm, <<>>, <<>>, a) :
        a \in {<<"t", "o", "d", "a", "y">>, <<"t", "o", "m", "o", "r", "r", "o", "w">>, <<" ", "T", "o", "d", "a", "y", " ">>, <<"n", "o", "t", " ", "a", " ", "d", "a", "t", "e">>, <<"t", "o", "m", "o", "r", "r", "o", "w", " ", "2", "x", "m">>,
               <<" ", "1", "3", ":", "3", "0">>, <<"f", "r", "i", "d", "a", "y">>, <<"j", "a", "n", " ", "1", "5", " ", "2", "0", "2", "6", "3">>, <<"1", "/", "1", "4", "/", "2", "6", " ", "1", "2", ":", "0", "0">>}}

WhenForms ==
    RelativeForms \cup WeekdayForms \cup MonthForms \cup NumericForms
        \cup TimeOnlyForms \cup OtherForms

\* Saturday 2026-12-26 to Friday 2027-01-01, at 10:15:42.
Nows == {DateAt(MakeDay(2026, 11, 26) + k, 615, 42) : k \in 0..6}

DateTimeInit ==
    /\ MainIdle
    /\ \E f \in WhenForms, n \in Nows, a \in NativeAnswers :
          call = [fn |-> "parseDateTime", form |-> f, arg |-> f.arg, now |-> n,
                  native |-> a, state |-> "called",
                  result |-> Resolved(0, n, NotSet, NotSet)]

CallParseDateTime ==
    /\ call.fn = "parseDateTime"
    /\ call.state = "called"
    /\ \E r \in {parseDateTime(call.arg, call.now, call.native)} :
          call' = [call EXCEPT !.state = IF r.thrown THEN "thrown" ELSE "returned",
                               !.result = r]
    /\ UNCHANGED mainVars

DateTimeNext == CallParseDateTime

SpecDateTime == DateTimeInit /\ [][DateTimeNext]_vars

\* ---- parseDateTime: the claims ----

DateTimeCalled == call.fn = "parseDateTime" /\ call.state # "called"

TimeWritten == call.form.time # NoTimeForm

Meridiem ==
    IF call.form.time.ampm \in {<<"p", "m">>, <<"P", "M">>} THEN "pm"
    ELSE IF call.form.time.ampm = <<"a", "m">> THEN "am" ELSE ""

WrittenHour == DecimalValue(call.form.time.hour)

WrittenMinute == DecimalValue(call.form.time.min)

\* The weekday named, from 0 = Sunday.
NamedWeekday == CHOOSE k \in 0..6 : weekdays[k + 1] = call.form.word

\* C14: for "[next] <weekday> <time>" and every current day of the week,
\* the result is a day strictly after today that falls on the named
\* weekday: the offset in days is target - today, plus 7 when that is zero
\* or negative or when next is written (so 1..7 without next).
C14_NextWeekday ==
    (DateTimeCalled /\ call.form.kind = "weekday") =>
        LET diff == NamedWeekday - getDay(call.now)
            offset == IF diff <= 0 \/ call.form.next THEN diff + 7 ELSE diff
        IN  /\ call.state = "returned"
            /\ call.result.date.day > call.now.day
            /\ getDay(call.result.date) = NamedWeekday
            /\ call.result.date.day = call.now.day + offset
            /\ ~call.form.next => offset \in 1..7

\* The rule that resolves a form with a time and a meridiem.
MeridiemRule ==
    CASE call.form.kind = "relative" -> 3
      [] call.form.kind = "weekday" -> 4
      [] call.form.kind = "month" -> 5
      [] OTHER -> 9

\* C15: rules 3, 4, 5 and 9 convert the hour in the same way: H + 12 for pm
\* and H < 12, 0 for am and H = 12, H otherwise; so 12pm is 12, 12am is 0,
\* and an H of 1..12 with a meridiem gives an hour of 0..23.
C15_TwelveHourConversion ==
    (DateTimeCalled /\ TimeWritten /\ Meridiem # "") =>
        LET claimed == IF Meridiem = "pm" /\ WrittenHour < 12 THEN WrittenHour + 12
                       ELSE IF Meridiem = "am" /\ WrittenHour = 12 THEN 0
                       ELSE WrittenHour
        IN  /\ call.state = "returned"
            /\ call.result.rule = MeridiemRule
            /\ call.result.hours = claimed
            /\ WrittenHour \in 1..12 =>
                  /\ claimed \in 0..23
                  /\ WrittenMinute < 60 =>
                        call.result.date.min = claimed * 60 + WrittenMinute

\* "12am", alone, is midnight of today.
C15_Witness ==
    /\ Returned("parseDateTime")
    /\ call.arg = <<"1", "2", "a", "m">>
    /\ call.result.rule = 9
    /\ call.result.hours = 0
    /\ call.result.date = DateAt(call.now.day, 0, 0)

\* An input of the shape of rule 3, 4 or 5 with a time and no meridiem.
TimeWithoutMeridiem ==
    /\ DateTimeCalled
    /\ call.form.kind \in {"relative", "weekday", "month"}
    /\ TimeWritten
    /\ Meridiem = ""

\* C16 as stated: a time without am/pm is accepted only by rules 6-8; an
\* input of the rule 3, 4 or 5 shape with a time and no meridiem is not
\* resolved by rule 3, 4 or 5.
C16_NoMeridiemOnlyNumericRules ==
    TimeWithoutMeridiem => call.result.rule \notin {3, 4, 5}

\* C16, amended: the meridiem of rules 3, 4 and 5 is optional; an input of
\* their shape with a time and no meridiem is resolved by its rule, with the
\* hour and the minute as written.
C16_NoMeridiemHourAsWritten ==
    TimeWithoutMeridiem =>
        /\ call.state = "returned"
        /\ call.result.rule = MeridiemRule
        /\ call.result.hours = WrittenHour
        /\ call.result.minutes = WrittenMinute

\* "Tomorrow 13" is tomorrow at 13:00.
C16_Witness ==
    /\ Returned("parseDateTime")
    /\ call.arg = <<"T", "o", "m", "o", "r", "r", "o", "w", " ", "1", "3">>
    /\ call.result.rule = 3
    /\ call.result.date = DateAt(call.now.day + 1, 13 * 60, 0)

\* C17: for "<month> D [YYYY] [time]" resolved by rule 5, the result is in
\* the current year when no year is written, and at midnight when no time
\* is written.
C17_MonthNameDefaults ==
    (Returned("parseDateTime") /\ call.form.kind = "month" /\ call.result.rule = 5) =>
        /\ call.form.year = <<>> =>
              getFullYear(call.result.date.day) = getFullYear(call.now.day)
        /\ ~TimeWritten => call.result.date.min = 0 /\ call.result.date.sec = 0

\* C18: for every bare "H:MM" resolved by rule 8 the result is on today's
\* date, at hour H, minute MM and zero seconds.
C18_BareTimeIsToday ==
    (Returned("parseDateTime") /\ call.form.kind = "time" /\ call.result.rule = 8) =>
        /\ call.result.date.day = call.now.day
        /\ call.result.date.min \div 60 = WrittenHour
        /\ call.result.date.min % 60 = WrittenMinute
        /\ call.result.date.sec = 0

(***************************************************************************)
(* Properties of add and update, checked under SpecEdit.                   *)
(***************************************************************************)
\* Some -r option of the command line has the value 0 or none.
NoRemindersGiven(args) ==
    \E i \in OptionPositions(args, ReminderFlags) :
        ValueAt(args, i) \in {<<"0">>, <<"n", "o", "n", "e">>}

SentBodies == {i \in 1..Len(calls) : calls[i].op \in {"create", "update"}}

\* C12: if any -r value of the command line is exactly "0" or "none", the
\* event body sent by add or update carries reminders {useDefault: false,
\* overrides: []}, whatever other reminder specs the command line has,
\* before or after it.
C12_NoneSuppressesAll ==
    NoRemindersGiven(argv) =>
        \A i \in SentBodies :
            calls[i].body.reminders =
                [set |-> TRUE, useDefault |-> FALSE, overrides |-> <<>>]

\* add was given -r none and, after it, the two reminders 1h:email,10; the
\* event it sent has no reminders.
C12_Witness ==
    /\ \E i, j \in OptionPositions(argv, ReminderFlags) :
          /\ i < j
          /\ ValueAt(argv, i) = <<"n", "o", "n", "e">>
          /\ ValueAt(argv, j) = <<"1", "h", ":", "e", "m", "a", "i", "l", ",", "1", "0">>
    /\ Len(calls) = 1
    /\ calls[1].op = "create"
    /\ Len(parsed.reminders) = 2
    /\ calls[1].body.reminders.set
    /\ calls[1].body.reminders.overrides = <<>>

\* main has come to the add command with a title and a <when>.
AddReached ==
    /\ user # <<>>
    /\ parsed.command = <<"a", "d", "d">>
    /\ Len(parsed.args) >= 2

\* C13: when the <when> of add matches none of parseDateTime's rules and
\* the platform's parsing fails too, the run ends with the "cannot parse"
\* error quoting the text given and a non-zero status, no access token is
\* asked for and no create call is made.
C13_UnparsableWhenFails ==
    (/\ AddReached
     /\ ~nativeDate.valid
     /\ parseDateTime(parsed.args[2], Now, nativeDate).rule = 10)
        => /\ pc = "exited"
           /\ exitCode # 0
           /\ stderr = "Error: Cannot parse date/time"
           /\ errText = parsed.args[2]
           /\ authCalls = <<>>
           /\ calls = <<>>

\* add "T" "xyz" was run with the credentials in place and ended with the
\* error quoting xyz.
C13_Witness ==
    /\ AddReached
    /\ credentials
    /\ ~nativeDate.valid
    /\ parsed.args[2] = <<"x", "y", "z">>
    /\ pc = "exited"
    /\ exitCode = 1
    /\ errText = <<"x", "y", "z">>
    /\ authCalls = <<>>

\* The minutes from the displayed start to the displayed end.
DisplayedMinutes ==
    (out.end.day * MinutesPerDay + out.end.min)
        - (out.start.day * MinutesPerDay + out.start.min)

\* C19: the event add creates is timed on both ends and its end is exactly
\* parseDuration(duration) minutes after its start, 60 minutes when the
\* duration is left out; for a duration of "1h" the start displayed is one
\* hour before the end displayed.
C19_AddEndAfterStart ==
    (user # <<>> /\ parsed.command = <<"a", "d", "d">>) =>
        \A i \in 1..Len(calls) :
            calls[i].op = "create" =>
                LET b == calls[i].body
                    mins == IF Len(parsed.args) >= 3 THEN parseDuration(parsed.args[3])
                            ELSE 60
                IN  /\ b.start.date = NoDay /\ b.start.timeZone # ""
                    /\ b.end.date = NoDay /\ b.end.timeZone # ""
                    /\ b.end.dateTime - b.start.dateTime = mins * 60
                    /\ (/\ calls[i].status = "ok"
                        /\ Len(parsed.args) >= 3 => parsed.args[3] = <<"1", "h">>)
                           => /\ out.start.min # NotSet
                              /\ out.end.min # NotSet
                              /\ DisplayedMinutes = 60

\* add "T" "tomorrow 10am" "1h" has created its event and displayed it as
\* tomorrow 10:00 - 11:00.
C19_Witness ==
    /\ AddReached
    /\ Len(parsed.args) = 3
    /\ parsed.args[2] = <<"t", "o", "m", "o", "r", "r", "o", "w", " ", "1", "0", "a", "m">>
    /\ parsed.args[3] = <<"1", "h">>
    /\ pc = "exited"
    /\ Len(calls) = 1
    /\ calls[1].status = "ok"
    /\ out.start = [day |-> Today + 1, min |-> 600]
    /\ out.end = [day |-> Today + 1, min |-> 660]

(***************************************************************************)
(* More properties of importIcsFile, checked under SpecImport.             *)
(***************************************************************************)
\* C21: when the file parses into N records, the import command ends with
\* exit status 0 however many records fail, and the counts it reports
\* satisfy imported + number of errors = N.
C21_ImportExitsZero ==
    (ImportReturned /\ disk.parses) =>
        /\ exitCode = 0
        /\ result.imported + Len(result.errors) = Len(disk.vevents)
        /\ out = <<result.imported, Len(result.errors)>>

\* A file of three records, of which one could not be mapped and one was
\* refused by the service, has been imported: 1 imported, 2 errors, status 0.
C21_Witness ==
    /\ ImportReturned
    /\ disk.parses
    /\ Len(disk.vevents) = 3
    /\ \E k \in 1..3 : disk.vevents[k].malformed
    /\ \E i \in 1..Len(calls) : calls[i].status = "error"
    /\ out = <<1, 2>>
    /\ exitCode = 0

(***************************************************************************)
(* Properties of the remote requests, checked under Spec.                  *)
(***************************************************************************)
ImportRuns == user # <<>> /\ parsed.command = <<"i", "m", "p", "o", "r", "t">>

RefusedCalls == {i \in 1..Len(calls) : calls[i].status = "error"}

\* C22: remote errors are not retried: a response that is not 2xx to a
\* list, create, update or delete call becomes an error that carries the
\* status code, the same request is not issued a second time in the run,
\* and outside the import loop the command stops with a non-zero status
\* without another remote call.
C22_NoRetry ==
    \A i \in RefusedCalls :
        /\ calls[i].reply \in ErrorStatuses
        /\ \A j \in 1..Len(calls) :
              j > i => ~(/\ calls[j].op = calls[i].op
                         /\ calls[j].rec = calls[i].rec
                         /\ calls[j].body = calls[i].body)
        /\ IF ImportRuns
           THEN \E k \in 1..Len(result.errors) :
                   result.errors[k].message = <<"Failed to create event", calls[i].reply>>
           ELSE /\ i = Len(calls)
                /\ pc = "exited"
                /\ exitCode # 0
                /\ errText = calls[i].reply

\* delete e: the list was answered, the DELETE was refused with 500; the run
\* ended with status 1 and the error quotes 500.
C22_Witness ==
    /\ Len(calls) = 2
    /\ calls[1].op = "list" /\ calls[1].status = "ok"
    /\ calls[2].op = "delete" /\ calls[2].status = "error"
    /\ calls[2].reply = <<"5", "0", "0">>
    /\ pc = "exited"
    /\ exitCode = 1
    /\ stderr = "Error: Failed to delete event"
    /\ errText = <<"5", "0", "0">>

(***************************************************************************)
(* Properties of the list command, checked under SpecList.                 *)
(***************************************************************************)
\* The list command has printed the events it fetched.
ListPrinted ==
    /\ user # <<>>
    /\ parsed.command = <<"l", "i", "s", "t">>
    /\ pc = "exited"
    /\ exitCode = 0

LastValue(args, flags) ==
    LET at == OptionPositions(args, flags)
    IN  IF at = {} THEN <<>>
        ELSE ValueAt(args, CHOOSE i \in at : \A j \in at : j <= i)

\* parseArgs has returned, and main has come to resolve the user: no help
\* was asked for and there is a command other than assoc.
UserResolved ==
    /\ pc # "start"
    /\ ~parseArgs(argv).exit
    /\ ~HelpRequested(argv)
    /\ parseArgs(argv).parsed.command \notin {<<>>, <<"a", "s", "s", "o", "c">>}

\* C24: the stored default user changes only through -defaultUser: a run
\* with -u <email> and no -defaultUser leaves the stored lastUser as it was
\* and runs as normalizeUser(email); a run with -defaultUser <email> stores
\* normalizeUser(email), and a run without -u runs as the stored user.
C24_DefaultUserOnly ==
    /\ [][LastValue(argv, DefaultUserFlags) = <<>> => config' = config]_vars
    /\ [](UserResolved =>
            LET cli == LastValue(argv, UserFlags)
                default == LastValue(argv, DefaultUserFlags)
            IN  /\ cli # <<>> => user = normalizeUser(cli)
                /\ default # <<>> => config.lastUser = normalizeUser(default)
                /\ cli = <<>> => user = config.lastUser
                /\ \A i \in 1..Len(authCalls) : authCalls[i].user = user)

\* A run with -u A.b@x while bob is the stored user: it asks for the token
\* of ab, and bob is still the stored user.
C24_Witness ==
    /\ UserResolved
    /\ LastValue(argv, UserFlags) = <<"A", ".", "b", "@", "x">>
    /\ LastValue(argv, DefaultUserFlags) = <<>>
    /\ config.lastUser = <<"b", "o", "b">>
    /\ user = <<"a", "b">>
    /\ Len(authCalls) = 1
    /\ authCalls[1].user = <<"a", "b">>

AllFlags == ValueFlags \cup VerboseFlags \cup BirthdayFlags \cup HelpFlags

\* The arguments from args[i] on that start with '-', are no option of the
\* program and are not the value of the option before them, in their order.
RECURSIVE UnknownFrom(_, _)
UnknownFrom(args, i) ==
    IF i > Len(args) THEN <<>>
    ELSE IF StartsWith(args[i], <<"-">>) /\ args[i] \notin AllFlags /\ ~IsValue(args, i)
    THEN <<args[i]>> \o UnknownFrom(args, i + 1)
    ELSE UnknownFrom(args, i + 1)

\* The options one after the other, with ", " between two of them.
RECURSIVE CommaSeparated(_)
CommaSeparated(options) ==
    IF options = <<>> THEN <<>>
    ELSE IF Tail(options) = <<>> THEN options[1]
    ELSE options[1] \o <<",", " ">> \o CommaSeparated(Tail(options))

\* The unknown options were reported, each of them.
UnknownReported ==
    /\ stderr = "Unknown options"
    /\ errText = CommaSeparated(UnknownFrom(argv, 1))

\* C25 as stated: a command line with an unknown option ends the run with a
\* non-zero status after every unknown option was reported; the stored
\* default user is not written, nothing is authenticated and no remote
\* request is made.
C25_UnknownOptionsFail ==
    /\ [][UnknownFrom(argv, 1) # <<>> => config' = config]_vars
    /\ []((pc # "start" /\ UnknownFrom(argv, 1) # <<>>)
            => FailedHard /\ UnknownReported)

\* C25, amended: a command line with an unknown option ends the run with a
\* non-zero status, the stored default user is not written, nothing is
\* authenticated and no remote request is made; every unknown option was
\* reported, unless a -r part outside the reminder grammar ended the run
\* before, and then none was.
C25_UnknownOptionsAmended ==
    /\ [][UnknownFrom(argv, 1) # <<>> => config' = config]_vars
    /\ []((pc # "start" /\ UnknownFrom(argv, 1) # <<>>)
            => /\ FailedHard
               /\ IF InvalidReminderGiven(argv)
                  THEN stderr = "Invalid reminder" /\ errText = <<>>
                  ELSE UnknownReported)

\* gcal <command> -y -x with bob stored: both options are reported and bob
\* is still the stored user.
C25_Witness ==
    /\ FailedHard
    /\ UnknownFrom(argv, 1) = <<<<"-", "y">>, <<"-", "x">>>>
    /\ errText = <<"-", "y", ",", " ", "-", "x">>
    /\ stderr = "Unknown options"
    /\ config.lastUser = <<"b", "o", "b">>

(***************************************************************************)
(* The interrupt during an import, checked under SpecImport.               *)
(***************************************************************************)
\* C26: once SIGINT has been received during an import, no create request
\* is started any more: no step taken after the signal adds a create
\* request to the ones issued.
C26_NoCreateAfterSigint ==
    [][aborted => \A i \in (Len(calls) + 1)..Len(calls') : calls'[i].op # "create"]_vars

(***************************************************************************)
(* Properties of delete and update, checked under SpecEdit.                *)
(***************************************************************************)
\* The delete command has its list of events.
DeleteListed ==
    /\ Len(calls) >= 1
    /\ parsed.command \in {<<"d", "e", "l">>, <<"d", "e", "l", "e", "t", "e">>}
    /\ calls[1].op = "list"
    /\ calls[1].status = "ok"

\* The events of the list whose id begins with prefix.
Matching(fetched, prefix) ==
    {k \in 1..Len(fetched) : StartsWith(fetched[k].id, prefix)}

\* The prefix has exactly one match in the list, and that event is no
\* birthday unless birthdays are included.
Deletable(fetched, prefix, birthdays) ==
    /\ Cardinality(Matching(fetched, prefix)) = 1
    /\ \A k \in Matching(fetched, prefix) :
           fetched[k].eventType = "birthday" => birthdays

\* The full ids of the events to delete for the prefixes from the k-th on,
\* in the order of the prefixes.
RECURSIVE DeleteTargets(_, _, _, _)
DeleteTargets(fetched, prefixes, k, birthdays) ==
    IF k > Len(prefixes) THEN <<>>
    ELSE IF Deletable(fetched, prefixes[k], birthdays)
    THEN <<fetched[CHOOSE m \in Matching(fetched, prefixes[k]) : TRUE].id>>
             \o DeleteTargets(fetched, prefixes, k + 1, birthdays)
    ELSE DeleteTargets(fetched, prefixes, k + 1, birthdays)

\* The ids of the requests after the list, which are all delete requests.
DeletedIds == [i \in 1..(Len(calls) - 1) |-> calls[i + 1].body.id]

\* C27: the delete requests of the delete command are, in the order of the
\* id prefixes, for the full ids of the events that are the one match of
\* their prefix in the list fetched at the start (birthdays only with -b);
\* a prefix with no match or several issues none, and when no request was
\* refused every prefix was processed.
C27_DeleteUniqueMatches ==
    DeleteListed =>
        LET targets == DeleteTargets(calls[1].reply, parsed.args, 1,
                                     OptionPositions(argv, BirthdayFlags) # {})
        IN  /\ \A i \in 2..Len(calls) : calls[i].op = "delete"
            /\ Len(DeletedIds) <= Len(targets)
            /\ DeletedIds = SubSeq(targets, 1, Len(DeletedIds))
            /\ (pc = "exited" /\ exitCode = 0) => DeletedIds = targets

\* gcal delete z e1 with e1 and e2 listed: z is reported as not found, and
\* e1 is deleted after it.
C27_Witness ==
    /\ DeleteListed
    /\ parsed.args = <<<<"z">>, <<"e", "1">>>>
    /\ Len(calls[1].reply) = 2
    /\ pc = "exited"
    /\ exitCode = 0
    /\ DeletedIds = <<<<"e", "1">>>>

\* The update command has its list of events.
UpdateListed ==
    /\ Len(calls) >= 1
    /\ parsed.command = <<"u", "p", "d", "a", "t", "e">>
    /\ calls[1].op = "list"
    /\ calls[1].status = "ok"

\* Some flag of update was given: a title, a location, a start, a
\* duration, or reminders.
UpdateFlagGiven ==
    \/ LastValue(argv, TitleFlags) # <<>>
    \/ LastValue(argv, LocationFlags) # <<>>
    \/ LastValue(argv, StartFlags) # <<>>
    \/ LastValue(argv, DurationFlags) # <<>>
    \/ OptionPositions(argv, ReminderFlags) # {}

\* Of -start and -dur only -dur was given.
DurationAlone ==
    LastValue(argv, StartFlags) = <<>> /\ LastValue(argv, DurationFlags) # <<>>

\* The one event of the list whose id begins with the prefix given.
UpdateTarget ==
    LET fetched == calls[1].reply
    IN  fetched[CHOOSE k \in Matching(fetched, parsed.args[1]) : TRUE]

\* C28: the update request is issued only for the one event of the list
\* whose id begins with the prefix, and only when some update flag was
\* given; when the prefix matches no event or several, when no flag was
\* given, or when of -start and -dur only -dur was given and the target is
\* an all-day event, the command has ended with a non-zero status and no
\* update request.
C28_UpdateOnlyUniqueAndChanged ==
    /\ \A i \in 1..Len(calls) :
           calls[i].op = "update" =>
               /\ UpdateListed
               /\ i = 2
               /\ Cardinality(Matching(calls[1].reply, parsed.args[1])) = 1
               /\ UpdateFlagGiven
               /\ calls[i].body.id = UpdateTarget.id
    /\ UpdateListed =>
           LET matches == Matching(calls[1].reply, parsed.args[1])
           IN  (\/ Cardinality(matches) # 1
                \/ ~UpdateFlagGiven
                \/ DurationAlone /\ UpdateTarget.start.dateTime = NoDay)
                   => /\ pc = "exited"
                      /\ exitCode # 0
                      /\ Len(calls) = 1

\* gcal update e -title X with e1 the only event listed whose id begins
\* with e: the request is for e1.
C28_Witness ==
    /\ UpdateListed
    /\ parsed.args = <<<<"e">>>>
    /\ LastValue(argv, TitleFlags) = <<"X">>
    /\ Len(calls) = 2
    /\ calls[2].op = "update"
    /\ calls[2].body.id = <<"e", "1">>
    /\ calls[2].body.summary = <<"X">>

\* The target of update is a timed event.
TargetTimed ==
    UpdateTarget.start.dateTime # NoDay /\ UpdateTarget.end.dateTime # NoDay

\* C29: in the update request, with -start and no -dur the new end is after
\* the new start by the target's end minus its start when the target is
\* timed, and by 60 minutes when it is all-day; with -start and -dur by
\* parseDuration(dur) minutes; with -dur alone on a timed event the request
\* has no start, and its end is the target's start plus parseDuration(dur)
\* minutes.
C29_UpdateDurations ==
    \A i \in 1..Len(calls) :
        calls[i].op = "update" =>
            LET body == calls[i].body
                start == LastValue(argv, StartFlags)
                dur == LastValue(argv, DurationFlags)
                length == body.end.dateTime - body.start.dateTime
            IN  /\ (start # <<>> /\ dur = <<>> /\ TargetTimed)
                       => length = UpdateTarget.end.dateTime - UpdateTarget.start.dateTime
                /\ (start # <<>> /\ dur = <<>> /\ ~TargetTimed)
                       => length = 60 * SecondsPerMinute
                /\ (start # <<>> /\ dur # <<>>)
                       => length = parseDuration(dur) * SecondsPerMinute
                /\ start # <<>>
                       => body.start.dateTime # NoDay /\ body.end.dateTime # NoDay
                /\ (start = <<>> /\ dur # <<>>)
                       => /\ TargetTimed
                          /\ body.start = NoValue
                          /\ body.end.dateTime = UpdateTarget.start.dateTime
                                 + parseDuration(dur) * SecondsPerMinute

\* gcal update e1 -start "tomorrow 10am" on the event e1 of 30 minutes: the
\* request is for tomorrow 10:00 to 10:30.
C29_Witness ==
    /\ Len(calls) = 2
    /\ calls[2].op = "update"
    /\ calls[2].body.id = <<"e", "1">>
    /\ LastValue(argv, StartFlags) = <<"t", "o", "m", "o", "r", "r", "o", "w", " ", "1", "0", "a", "m">>
    /\ LastValue(argv, DurationFlags) = <<>>
    /\ calls[2].body.start = TimedValue(DateAt(Today + 1, 600, 0))
    /\ calls[2].body.end = TimedValue(DateAt(Today + 1, 630, 0))

(***************************************************************************)
(* The access scope of the commands, checked under Spec.                   *)
(***************************************************************************)
ReadingCommands == {<<"l", "i", "s", "t">>, <<"c", "a", "l", "e", "n", "d", "a", "r", "s">>}

WritingCommands == {<<"i", "m", "p", "o", "r", "t">>, <<"a", "d", "d">>, <<"d", "e", "l">>, <<"d", "e", "l", "e", "t", "e">>, <<"u", "p", "d", "a", "t", "e">>}

\* C30: list and calendars ask for their token with the read-only scope
\* and the token file token.json; import, add, delete and update with the
\* read-write scope and token-write.json; every create, update and delete
\* request carries a token of the read-write scope.
C30_ScopeMatchesCommand ==
    /\ \A i \in 1..Len(authCalls) :
           /\ parsed.command \in ReadingCommands \cup WritingCommands
           /\ parsed.command \in ReadingCommands
                  => /\ authCalls[i].scope = "calendar.readonly"
                     /\ authCalls[i].tokenFileName = "token.json"
           /\ parsed.command \in WritingCommands
                  => /\ authCalls[i].scope = "calendar"
                     /\ authCalls[i].tokenFileName = "token-write.json"
    /\ \A i \in 1..Len(calls) :
           /\ calls[i].op \in {"create", "update", "delete"}
                  => calls[i].scope = "calendar"
           /\ calls[i].scope = authCalls[1].scope

\* gcal delete e with e1 listed: the token was asked for with the
\* read-write scope, and the delete request carries it.
C30_Witness ==
    /\ Len(authCalls) = 1
    /\ authCalls[1].tokenFileName = "token-write.json"
    /\ Len(calls) = 2
    /\ calls[1].op = "list"
    /\ calls[2].op = "delete"
    /\ calls[2].scope = "calendar"

=============================================================================
